---- MODULE Spec2Model ----
(***************************************************************************)
(* Attendance marking, device binding, session lifecycle, registration,    *)
(* configuration and login of the Smart-attendance server                  *)
(* (src/backend/server.js) and of the teacher dashboard that drives it     *)
(* (src/frontend/components/TeacherDashboard.tsx through the               *)
(* storageService of src/unnamed/part_004).                                *)
(*                                                                         *)
(* Every `await` of a handler is a point where other requests interleave,  *)
(* so a handler is a sequence of actions, one per store operation.  The    *)
(* store is MongoDB behind Mongoose: a document save sends only the        *)
(* modified paths ($set deviceId, $push attendance) addressed by _id, and  *)
(* findOneAndUpdate $sets the fields of the request body.                  *)
(*                                                                         *)
(* A call of a dashboard is a sequence of actions too: the call itself,    *)
(* which fixes what the callback takes from the render it belongs to       *)
(* (activeSession, sysConfig) and from the clock (Date.now()); the server  *)
(* serving each of its requests; and the callback going on with the        *)
(* response and with what it fixed when it was called.                     *)
(***************************************************************************)
EXTENDS Naturals, Sequences, FiniteSets

\* ---- bounds of the model ------------------------------------------------
MaxReqs == 2        \* markAttendance requests that can be in flight together
MaxOpens == 2       \* createSession calls, and so sessions ever created
MaxGets == 2        \* GET /api/config requests that can be in flight together
MaxRows == 2        \* rows of one bulk import
MaxDocs == 1        \* times a roll number can be stored again after a deletion
\* Requests and calls are numbered in the order in which they start.  Under
\* SpecRace each of them runs once; under the specifications where one
\* operation runs at a time, a finished one returns and its slot serves the
\* next.

\* ---- values -------------------------------------------------------------
Reqs == 1..MaxReqs
Opens == 1..MaxOpens
Teachers == {"T1", "T2"}
Devices == {"D1", "D2"}
NoDevice == ""                      \* deviceId absent from the document
Omitted == ""                       \* a field the request body leaves out
Rolls == {<<"A">>, <<"B">>}         \* rollNumber of the student documents
\* identifiers as typed by a client: strings are sequences of characters
RawRolls == {<<"A">>, <<" ", "a", " ">>, <<"B">>, <<"b">>}
SessionIds == 1..MaxOpens
Gets == 1..MaxGets

\* identifiers and passwords as typed
LoginIdentifiers == {<<"a">>, <<"T">>, <<"R">>, <<"D">>}
Passwords == {<<"p">>, <<" ", "p">>, <<"x">>, <<>>}
Portals == {"STUDENT", "TEACHER"}

\* the Teacher collection at the start and the Admin collection, which no
\* route writes: T is a teacher, R an administrator, D has a document in both
TeacherRecords ==
  {[identifier |-> <<"T">>, password |-> <<"p">>],
   [identifier |-> <<"D">>, password |-> <<"p">>]}

AdminRecords ==
  {[identifier |-> <<"R">>, password |-> <<"p">>],
   [identifier |-> <<"D">>, password |-> <<"p">>]}

VARIABLES students, sessions, clock, mark, open, activeSession, endPc,
          config, cfg, reply, login, dash, teachers, reg, bulk

\* the dashboards' copies of the configuration and their calls in flight,
\* the Teacher collection, the registration and the bulk import in flight
more == <<dash, teachers, reg, bulk>>

\* the configuration store (the values of the documents with the key
\* system_settings), the readers of it that are in flight, and the answer of
\* the last handler that answers in one store operation, and the login that
\* is in flight
site == <<config, cfg, reply, login, dash, teachers, reg, bulk>>

\* the stores and the requests of the attendance protocol
core == <<students, sessions, clock, mark, open, activeSession, endPc>>

vars == <<students, sessions, clock, mark, open, activeSession, endPc,
          config, cfg, reply, login, dash, teachers, reg, bulk>>

\* ---- String.prototype.trim / toUpperCase --------------------------------
UpperChar(c) == IF c = "a" THEN "A" ELSE IF c = "b" THEN "B" ELSE c

ToUpperCase(s) == [i \in 1..Len(s) |-> UpperChar(s[i])]

RECURSIVE TrimStart(_)
TrimStart(s) == IF s # <<>> /\ Head(s) = " " THEN TrimStart(Tail(s)) ELSE s

RECURSIVE TrimEnd(_)
TrimEnd(s) ==
  IF s # <<>> /\ s[Len(s)] = " " THEN TrimEnd(SubSeq(s, 1, Len(s) - 1)) ELSE s

Trim(s) == TrimEnd(TrimStart(s))

\* ---- documents ----------------------------------------------------------
\* department and section of the student documents: every registration and
\* every import row of a roll number carries the same ones, so they are fixed
\* per roll number
StudentProfile(roll) ==
  IF roll = <<"A">> THEN [department |-> "CSE", section |-> "S1"]
  ELSE IF roll = <<"B">> THEN [department |-> "ECE", section |-> "S2"]
  ELSE [department |-> Omitted, section |-> Omitted]

\* the department and section a request body can carry
Departments == {Omitted, "ECE"}
Sections == {Omitted, "S2"}

\* the documents of the Student collection, by rollNumber: whether there is
\* one, its deviceId, its password and its _id (doc).  Without a document,
\* doc is the _id of the last one the roll number had
NoStudent(doc) ==
  [present |-> FALSE, deviceId |-> NoDevice, password |-> <<>>, doc |-> doc]

\* an entry that leaves out the deviceId of line 209
AttendanceRecordNoDevice(roll, department, section, deviceId) ==
  [rollNumber |-> roll, department |-> department, section |-> section,
   deviceId |-> NoDevice]

\* { rollNumber: roll, name, department, section, deviceId, timestamp }: the
\* department and the section are the ones of the request body
AttendanceRecord(roll, department, section, deviceId) ==
  [rollNumber |-> roll, department |-> department, section |-> section,
   deviceId |-> deviceId]

SessionDoc(id, teacherId, isActive, attendance) ==
  [id |-> id, teacherId |-> teacherId, isActive |-> isActive,
   attendance |-> attendance]

\* ---- store queries ------------------------------------------------------
\* Session.findOne({ id }): position of the document, 0 when there is none
SessionIndex(id) ==
  IF \E i \in 1..Len(sessions) : sessions[i].id = id
  THEN CHOOSE i \in 1..Len(sessions) : sessions[i].id = id
  ELSE 0

\* the query of line 200 without its isActive condition
AnySessionIndex(id) ==
  IF \E i \in 1..Len(sessions) : sessions[i].id = id
  THEN CHOOSE i \in 1..Len(sessions) : sessions[i].id = id
  ELSE 0

\* Session.findOne({ id, isActive: true })
ActiveSessionIndex(id) ==
  IF SessionIndex(id) # 0 /\ sessions[SessionIndex(id)].isActive
  THEN SessionIndex(id) ELSE 0

\* session.attendance.some(r => r.rollNumber === roll)
HasRoll(attendance, roll) ==
  \E i \in 1..Len(attendance) : attendance[i].rollNumber = roll

\* Student.findOne({ rollNumber: roll })
StudentExists(roll) == roll \in Rolls /\ students[roll].present

\* the query of line 207 left out
NoOtherStudentWithDevice(deviceId, roll) == FALSE

\* Student.findOne({ deviceId, rollNumber: { $ne: roll } })
OtherStudentWithDevice(deviceId, roll) ==
  \E other \in Rolls : /\ other # roll
                       /\ students[other].present
                       /\ students[other].deviceId = deviceId

RECURSIVE Reverse(_)
Reverse(s) == IF s = <<>> THEN <<>> ELSE Append(Reverse(Tail(s)), Head(s))

\* Session.find().sort({ createdAt: -1 }): newest document first
GetSessions == Reverse(sessions)

\* Session.findOneAndUpdate({ id }, body): $set of the body's fields
PutSession(store, body) ==
  [i \in 1..Len(store) |->
     IF store[i].id = body.id
     THEN [store[i] EXCEPT !.teacherId = body.teacherId,
                           !.isActive = body.isActive,
                           !.attendance = body.attendance]
     ELSE store[i]]

\* ---- initial state ------------------------------------------------------
\* a request: its position, its parameters, the _id of the student document
\* it has read (doc) and its answer
IdleMark == [pc |-> "idle", id |-> 0, roll |-> <<>>, deviceId |-> NoDevice,
             department |-> Omitted, section |-> Omitted, doc |-> 0,
             result |-> "none"]

\* a createSession call: its position, the id of its newSession, the
\* sessions saveSessions has still to send, and the sysConfig of the render
\* in which it was called (empty: null)
IdleOpen == [pc |-> "idle", teacherId |-> "", newId |-> 0, pending |-> <<>>,
             sysConfig |-> <<>>]

\* who reads the configuration: a client of the API, or a callback of the
\* dashboard of teacher t
NoCaller == [kind |-> "none", t |-> ""]

ApiCaller == [kind |-> "api", t |-> ""]

MountCaller(t) == [kind |-> "mount", t |-> t]

PollCaller(t) == [kind |-> "poll", t |-> t]

\* a reader of the configuration: its position in GET /api/config and the
\* answer it has got (the body is a sequence with the value, empty with an
\* error)
IdleGet == [pc |-> "idle", status |-> 0, value |-> <<>>, caller |-> NoCaller]

\* the login in flight: the portal (role of the body), the identifier and the
\* password as the handler compares them, the lock flag it has read, and its
\* answer
IdleLogin == [pc |-> "idle", role |-> "", identifier |-> <<>>,
              password |-> <<>>, locked |-> FALSE, status |-> 0,
              finalRole |-> ""]

NoReply == [op |-> "none", status |-> 0, role |-> "", found |-> FALSE]

\* the dashboard of a teacher: sysConfig (empty: null), and the callbacks in
\* flight with what they captured when they were called and what the server
\* answered: endSession (updated) and its refreshData (refreshed), the
\* interval callback (poll), the mount effect (mount) and toggleSysLock
\* (toggle).  A dashboard that has just been loaded has called init(), whose
\* first request, getTeacher, is on its way
NewDash == [sysConfig |-> <<>>, updated |-> <<>>, refreshed |-> <<>>,
            pollPc |-> "idle", pollCopy |-> <<>>, pollGot |-> <<>>,
            mountPc |-> "teacher", mountGot |-> <<>>,
            togglePc |-> "idle", toggleNew |-> <<>>]

\* the registration in flight: role, idUpper and the trimmed password, and
\* the status of its answer
IdleReg == [pc |-> "idle", role |-> "", identifier |-> <<>>,
            password |-> <<>>, status |-> 0]

\* the bulk import in flight: the rows still to go and the two counters
IdleBulk == [pc |-> "idle", rows |-> <<>>, added |-> 0, skipped |-> 0,
             status |-> 0]

Init ==
  /\ students = [roll \in Rolls |-> [present |-> TRUE, deviceId |-> NoDevice,
                                     password |-> <<"p">>, doc |-> 0]]
  /\ sessions = <<>>
  /\ clock = 1
  /\ mark = [r \in Reqs |-> IdleMark]
  /\ open = [o \in Opens |-> IdleOpen]
  /\ activeSession = [t \in Teachers |-> <<>>]
  /\ endPc = [t \in Teachers |-> "idle"]
  /\ config = <<>>
  /\ cfg = [g \in Gets |-> IdleGet]
  /\ reply = NoReply
  /\ login = IdleLogin
  /\ dash = [t \in Teachers |-> NewDash]
  /\ teachers = TeacherRecords
  /\ reg = IdleReg
  /\ bulk = IdleBulk

\* ---- POST /api/sessions/:id/mark ----------------------------------------
Finish(r, result) == mark' = [mark EXCEPT ![r].pc = "done", ![r].result = result]

\* MarkRequest with line 202 reduced to rollNumber.toUpperCase()
MarkRequestNoTrim(r, id, rollNumber, deviceId) ==
  /\ mark[r].pc = "idle"
  /\ \A q \in Reqs : q < r => mark[q].pc # "idle"
  /\ LET roll == ToUpperCase(rollNumber)
         started == [pc |-> "findStudent", id |-> id, roll |-> roll,
                     deviceId |-> deviceId,
                     department |->
                       StudentProfile(ToUpperCase(Trim(rollNumber))).department,
                     section |->
                       StudentProfile(ToUpperCase(Trim(rollNumber))).section,
                     doc |-> 0, result |-> "none"]
         i == ActiveSessionIndex(id)
     IN mark' = [mark EXCEPT ![r] =
          IF i = 0
          THEN [started EXCEPT !.pc = "done", !.result = "SessionNotActive"]
          ELSE IF HasRoll(sessions[i].attendance, roll)
          THEN [started EXCEPT !.pc = "done", !.result = "AlreadyMarked"]
          ELSE started]
  /\ UNCHANGED <<students, sessions, clock, open, activeSession, endPc, site>>

\* MarkRequest with the roster of line 203 searched for the roll number as
\* it was sent
MarkRequestRawRoll(r, id, rollNumber, deviceId) ==
  /\ mark[r].pc = "idle"
  /\ \A q \in Reqs : q < r => mark[q].pc # "idle"
  /\ LET roll == ToUpperCase(Trim(rollNumber))
         started == [pc |-> "findStudent", id |-> id, roll |-> roll,
                     deviceId |-> deviceId,
                     department |->
                       StudentProfile(ToUpperCase(Trim(rollNumber))).department,
                     section |->
                       StudentProfile(ToUpperCase(Trim(rollNumber))).section,
                     doc |-> 0, result |-> "none"]
         i == ActiveSessionIndex(id)
     IN mark' = [mark EXCEPT ![r] =
          IF i = 0
          THEN [started EXCEPT !.pc = "done", !.result = "SessionNotActive"]
          ELSE IF HasRoll(sessions[i].attendance, rollNumber)
          THEN [started EXCEPT !.pc = "done", !.result = "AlreadyMarked"]
          ELSE started]
  /\ UNCHANGED <<students, sessions, clock, open, activeSession, endPc, site>>

\* Session.findOne({ id, isActive: true }), normalisation and duplicate check
\* for a request with the body { rollNumber, deviceId, department, section }
MarkRequestBody(r, id, rollNumber, deviceId, department, section) ==
  /\ mark[r].pc = "idle"
  /\ \A q \in Reqs : q < r => mark[q].pc # "idle"
  /\ LET roll == ToUpperCase(Trim(rollNumber))
         started == [pc |-> "findStudent", id |-> id, roll |-> roll,
                     deviceId |-> deviceId,
                     department |-> department, section |-> section,
                     doc |-> 0, result |-> "none"]
         i == ActiveSessionIndex(id)
     IN mark' = [mark EXCEPT ![r] =
          IF i = 0
          THEN [started EXCEPT !.pc = "done", !.result = "SessionNotActive"]
          ELSE IF HasRoll(sessions[i].attendance, roll)
          THEN [started EXCEPT !.pc = "done", !.result = "AlreadyMarked"]
          ELSE started]
  /\ UNCHANGED <<students, sessions, clock, open, activeSession, endPc, site>>

\* the request of the student dashboard: the body carries the department and
\* the section of the profile of the student who is logged in
MarkRequest(r, id, rollNumber, deviceId) ==
  LET profile == StudentProfile(ToUpperCase(Trim(rollNumber)))
  IN MarkRequestBody(r, id, rollNumber, deviceId,
                     profile.department, profile.section)

\* MarkFindStudent with the check of lines 204 and 205 left out
MarkFindStudentNoConflict(r) ==
  /\ mark[r].pc = "findStudent"
  /\ LET roll == mark[r].roll
     IN IF ~StudentExists(roll)
        THEN Finish(r, "UnknownIdentity")
        ELSE mark' = [mark EXCEPT
               ![r].pc = IF students[roll].deviceId = NoDevice
                         THEN "findOtherUnbound" ELSE "findOtherBound",
               ![r].doc = students[roll].doc]
  /\ UNCHANGED <<students, sessions, clock, open, activeSession, endPc, site>>

\* MarkFindStudent with the two device checks of lines 204 and 206 swapped
MarkFindStudentReuseFirst(r) ==
  /\ mark[r].pc = "findStudent"
  /\ LET roll == mark[r].roll
     IN IF ~StudentExists(roll)
        THEN Finish(r, "UnknownIdentity")
        ELSE IF OtherStudentWithDevice(mark[r].deviceId, roll)
        THEN Finish(r, "DeviceAlreadyUsedBy")
        ELSE IF /\ students[roll].deviceId # NoDevice
                /\ students[roll].deviceId # mark[r].deviceId
        THEN Finish(r, "DeviceConflict")
        ELSE mark' = [mark EXCEPT
               ![r].pc = IF students[roll].deviceId = NoDevice
                         THEN "findOtherUnbound" ELSE "findOtherBound",
               ![r].doc = students[roll].doc]
  /\ UNCHANGED <<students, sessions, clock, open, activeSession, endPc, site>>

\* Student.findOne({ rollNumber: roll }) and the device-binding check; the
\* request keeps the document it read: the pc records whether that document
\* had a deviceId
MarkFindStudent(r) ==
  /\ mark[r].pc = "findStudent"
  /\ LET roll == mark[r].roll
     IN IF ~StudentExists(roll)
        THEN Finish(r, "UnknownIdentity")
        ELSE IF /\ students[roll].deviceId # NoDevice
                /\ students[roll].deviceId # mark[r].deviceId
        THEN Finish(r, "DeviceConflict")
        ELSE mark' = [mark EXCEPT
               ![r].pc = IF students[roll].deviceId = NoDevice
                         THEN "findOtherUnbound" ELSE "findOtherBound",
               ![r].doc = students[roll].doc]
  /\ UNCHANGED <<students, sessions, clock, open, activeSession, endPc, site>>

\* MarkFindOther with the binding of line 208 written before the query of
\* line 207
MarkFindOtherBindFirst(r) ==
  /\ mark[r].pc \in {"findOtherUnbound", "findOtherBound"}
  /\ students' = IF mark[r].pc = "findOtherUnbound"
                 THEN [students EXCEPT ![mark[r].roll].deviceId =
                         mark[r].deviceId]
                 ELSE students
  /\ IF OtherStudentWithDevice(mark[r].deviceId, mark[r].roll)
     THEN Finish(r, "DeviceAlreadyUsedBy")
     ELSE mark' = [mark EXCEPT ![r].pc =
            IF mark[r].pc = "findOtherUnbound"
            THEN "saveStudent" ELSE "saveSession"]
  /\ UNCHANGED <<sessions, clock, open, activeSession, endPc, site>>

\* MarkFindOther that asks again, until the device is free, instead of
\* refusing the request
MarkFindOtherRetry(r) ==
  /\ mark[r].pc \in {"findOtherUnbound", "findOtherBound"}
  /\ IF OtherStudentWithDevice(mark[r].deviceId, mark[r].roll)
     THEN UNCHANGED mark
     ELSE mark' = [mark EXCEPT ![r].pc =
            IF mark[r].pc = "findOtherUnbound"
            THEN "saveStudent" ELSE "saveSession"]
  /\ UNCHANGED <<students, sessions, clock, open, activeSession, endPc, site>>

\* Student.findOne({ deviceId, rollNumber: { $ne: roll } })
MarkFindOther(r) ==
  /\ mark[r].pc \in {"findOtherUnbound", "findOtherBound"}
  /\ IF OtherStudentWithDevice(mark[r].deviceId, mark[r].roll)
     THEN Finish(r, "DeviceAlreadyUsedBy")
     ELSE mark' = [mark EXCEPT ![r].pc =
            IF mark[r].pc = "findOtherUnbound"
            THEN "saveStudent" ELSE "saveSession"]
  /\ UNCHANGED <<students, sessions, clock, open, activeSession, endPc, site>>

\* student.deviceId = deviceId; await student.save(): $set deviceId on the
\* document read at line 204, addressed by its _id; DocumentNotFoundError
\* when that document has been deleted, also when the roll number has been
\* stored again since.  The pc records that the request has taken the branch
\* of line 208.
MarkSaveStudent(r) ==
  /\ mark[r].pc = "saveStudent"
  /\ IF /\ students[mark[r].roll].present
        /\ students[mark[r].roll].doc = mark[r].doc
     THEN /\ students' = [students EXCEPT ![mark[r].roll].deviceId =
                            mark[r].deviceId]
          /\ mark' = [mark EXCEPT ![r].pc = "saveSessionAfterBind"]
     ELSE /\ Finish(r, "Internal")
          /\ UNCHANGED students
  /\ UNCHANGED <<sessions, clock, open, activeSession, endPc, site>>

\* session.attendance.push(...); await session.save(): $push of the new
\* entry on the stored document, whatever its isActive flag is by now
MarkSaveSession(r) ==
  /\ mark[r].pc \in {"saveSession", "saveSessionAfterBind"}
  /\ LET i == SessionIndex(mark[r].id)
     IN sessions' = [sessions EXCEPT ![i].attendance =
          Append(@, AttendanceRecord(mark[r].roll, mark[r].department,
                                     mark[r].section, mark[r].deviceId))]
  /\ Finish(r, "Success")
  /\ UNCHANGED <<students, clock, open, activeSession, endPc, site>>

\* a rejected student.save() that the handler swallows and goes on to the
\* append
MarkSaveStudentFailsGoesOn(r) ==
  /\ mark[r].pc = "saveStudent"
  /\ mark' = [mark EXCEPT ![r].pc = "saveSession"]
  /\ UNCHANGED <<students, sessions, clock, open, activeSession, endPc, site>>

\* a store operation of the commit step rejects (the database is unreachable
\* or refuses the write): nothing is written and the catch of line 212
\* answers 500
MarkSaveStudentFails(r) ==
  /\ mark[r].pc = "saveStudent"
  /\ Finish(r, "Internal")
  /\ UNCHANGED <<students, sessions, clock, open, activeSession, endPc, site>>

\* a rejected session.save() answered like a stored one
MarkSaveSessionFailsAcknowledged(r) ==
  /\ mark[r].pc \in {"saveSession", "saveSessionAfterBind"}
  /\ Finish(r, "Success")
  /\ UNCHANGED <<students, sessions, clock, open, activeSession, endPc, site>>

MarkSaveSessionFails(r) ==
  /\ mark[r].pc \in {"saveSession", "saveSessionAfterBind"}
  /\ Finish(r, "Internal")
  /\ UNCHANGED <<students, sessions, clock, open, activeSession, endPc, site>>

\* ---- student administration ---------------------------------------------
\* DELETE /api/students/:id
DeleteStudent(id) ==
  /\ StudentExists(ToUpperCase(id))
  /\ students' = [students EXCEPT ![ToUpperCase(id)] = NoStudent(@.doc)]
  /\ UNCHANGED <<sessions, clock, mark, open, activeSession, endPc, site>>

\* a reset that removes the document instead of its deviceId
ResetDeviceDeletes(id) ==
  /\ StudentExists(ToUpperCase(id))
  /\ students[ToUpperCase(id)].deviceId # NoDevice
  /\ students' = [students EXCEPT ![ToUpperCase(id)] = NoStudent(@.doc)]
  /\ UNCHANGED <<sessions, clock, mark, open, activeSession, endPc, site>>

\* POST /api/students/:id/reset-device: $unset deviceId
ResetDevice(id) ==
  /\ StudentExists(ToUpperCase(id))
  /\ students[ToUpperCase(id)].deviceId # NoDevice
  /\ students' = [students EXCEPT ![ToUpperCase(id)].deviceId = NoDevice]
  /\ UNCHANGED <<sessions, clock, mark, open, activeSession, endPc, site>>

\* ---- POST /api/auth/register --------------------------------------------
\* the bodies of the registration form (name is always filled in): students
\* by roll number, teachers by faculty id, and the roles the handler refuses
RegisterBodies ==
  [role : {"STUDENT"}, identifier : RawRolls \cup {<<>>}, password : Passwords]
    \cup [role : {"TEACHER"}, identifier : {<<"T">>, <<"R">>, <<"D">>},
          password : Passwords]
    \cup [role : {"ADMIN", "GUEST"}, identifier : {<<"R">>},
          password : {<<"p">>}]

RegisterAnswer(status) == reg' = [reg EXCEPT !.pc = "done", !.status = status]

\* Teacher.findOne({ identifier })
TeacherExists(identifier) == \E x \in teachers : x.identifier = identifier

\* Admin.findOne({ identifier })
AdminExists(identifier) == \E x \in AdminRecords : x.identifier = identifier

\* lines 105-120, 131-134 and 146-148: the 400 of the empty fields, the 403 of the
\* role ADMIN, and the first lookup: Student.findOne for a student,
\* Teacher.findOne for a teacher; any other role is answered 400
RegisterRequest(body) ==
  /\ reg.pc = "idle"
  /\ LET idUpper == ToUpperCase(Trim(body.identifier))
         started == [pc |-> "done", role |-> body.role,
                     identifier |-> idUpper,
                     password |-> Trim(body.password), status |-> 400]
     IN reg' =
          IF body.identifier = <<>> \/ body.password = <<>>
          THEN started
          ELSE IF body.role = "ADMIN"
          THEN [started EXCEPT !.status = 403]
          ELSE IF body.role = "STUDENT"
          THEN IF StudentExists(idUpper)
               THEN started
               ELSE [started EXCEPT !.pc = "saveStudent", !.status = 0]
          ELSE IF body.role = "TEACHER"
          THEN IF TeacherExists(idUpper)
               THEN started
               ELSE [started EXCEPT !.pc = "findAdmin", !.status = 0]
          ELSE started
  /\ UNCHANGED <<core, config, cfg, reply, login, dash, teachers, bulk>>

\* await newStudent.save(): the insert of a new document (a new _id)
\* without a deviceId; the unique index on rollNumber refuses it when the
\* roll number has been stored since line 119, and the catch answers 400
RegisterSaveStudent ==
  /\ reg.pc = "saveStudent"
  /\ IF students[reg.identifier].present
     THEN /\ RegisterAnswer(400)
          /\ UNCHANGED students
     ELSE /\ students[reg.identifier].doc < MaxDocs
          /\ students' = [students EXCEPT ![reg.identifier] =
               [present |-> TRUE, deviceId |-> NoDevice,
                password |-> reg.password, doc |-> @.doc + 1]]
          /\ RegisterAnswer(201)
  /\ UNCHANGED <<sessions, clock, mark, open, activeSession, endPc,
                 config, cfg, reply, login, dash, teachers, bulk>>

\* Admin.findOne of line 136
RegisterFindAdmin ==
  /\ reg.pc = "findAdmin"
  /\ IF AdminExists(reg.identifier)
     THEN RegisterAnswer(400)
     ELSE reg' = [reg EXCEPT !.pc = "saveTeacher"]
  /\ UNCHANGED <<core, config, cfg, reply, login, dash, teachers, bulk>>

\* await newTeacher.save(): the identifier is unique in the collection, as it
\* is for the student documents
RegisterSaveTeacher ==
  /\ reg.pc = "saveTeacher"
  /\ IF TeacherExists(reg.identifier)
     THEN /\ RegisterAnswer(400)
          /\ UNCHANGED teachers
     ELSE /\ teachers' = teachers \cup {[identifier |-> reg.identifier,
                                         password |-> reg.password]}
          /\ RegisterAnswer(201)
  /\ UNCHANGED <<core, config, cfg, reply, login, dash, bulk>>

\* the answer has reached the client
RegisterReturn ==
  /\ reg.pc = "done"
  /\ reg' = IdleReg
  /\ UNCHANGED <<core, config, cfg, reply, login, dash, teachers, bulk>>

\* DELETE /api/teachers/:id
DeleteTeacher(id) ==
  /\ TeacherExists(ToUpperCase(id))
  /\ teachers' = {x \in teachers : x.identifier # ToUpperCase(id)}
  /\ UNCHANGED <<core, config, cfg, reply, login, dash, reg, bulk>>

\* ---- POST /api/students/bulk --------------------------------------------
\* a row of req.body.students: the password is empty when the row has none
BulkRows ==
  [rollNumber : RawRolls, password : {<<"p">>, <<>>},
   deviceId : Devices \cup {NoDevice}]

BulkBodies == UNION {[1..n -> BulkRows] : n \in 1..MaxRows}

BulkRequest(studentsData) ==
  /\ bulk.pc = "idle"
  /\ bulk' = [IdleBulk EXCEPT !.pc = "find", !.rows = studentsData]
  /\ UNCHANGED <<core, config, cfg, reply, login, dash, teachers, reg>>

\* end of one iteration of the loop; res.json({ success, added, skipped })
\* after the last one
BulkAdvance(added, skipped) ==
  bulk' = IF Len(bulk.rows) = 1
          THEN [bulk EXCEPT !.pc = "done", !.rows = <<>>, !.added = added,
                            !.skipped = skipped, !.status = 200]
          ELSE [bulk EXCEPT !.pc = "find", !.rows = Tail(@),
                            !.added = added, !.skipped = skipped]

\* the answer of the catch of line 181: the rows stored so far stay
BulkFails == bulk' = [bulk EXCEPT !.pc = "done", !.rows = <<>>, !.status = 500]

\* await Student.findOne({ rollNumber: roll }) for the next row: a roll
\* number that is stored is skipped; for one that is not, the document is
\* built, and data.password.trim() throws when the row has no password
BulkFind ==
  /\ bulk.pc = "find"
  /\ LET data == Head(bulk.rows)
         roll == ToUpperCase(Trim(data.rollNumber))
     IN IF StudentExists(roll)
        THEN BulkAdvance(bulk.added, bulk.skipped + 1)
        ELSE IF data.password = <<>>
        THEN BulkFails
        ELSE bulk' = [bulk EXCEPT !.pc = "save"]
  /\ UNCHANGED <<core, config, cfg, reply, login, dash, teachers, reg>>

\* await new Student({ ...data, rollNumber: roll, password }).save(): the
\* row is stored as a new document (a new _id) with the deviceId it carries;
\* the unique index on rollNumber refuses the insert when the roll number
\* has been stored since the lookup
BulkSave ==
  /\ bulk.pc = "save"
  /\ LET data == Head(bulk.rows)
         roll == ToUpperCase(Trim(data.rollNumber))
     IN IF students[roll].present
        THEN /\ BulkFails
             /\ UNCHANGED students
        ELSE /\ students[roll].doc < MaxDocs
             /\ students' = [students EXCEPT ![roll] =
                  [present |-> TRUE, deviceId |-> data.deviceId,
                   password |-> Trim(data.password), doc |-> @.doc + 1]]
             /\ BulkAdvance(bulk.added + 1, bulk.skipped)
  /\ UNCHANGED <<sessions, clock, mark, open, activeSession, endPc,
                 config, cfg, reply, login, dash, teachers, reg>>

\* the answer has reached the client
BulkReturn ==
  /\ bulk.pc = "done"
  /\ bulk' = IdleBulk
  /\ UNCHANGED <<core, config, cfg, reply, login, dash, teachers, reg>>

\* ---- GET /api/config, POST /api/config ----------------------------------
\* the value of the configuration: the lock flag and any other field a body
\* carries (here one, left out or set); lastUpdated is not modelled
ConfigValues == [isLoginLocked : BOOLEAN, note : {Omitted, "on"}]

\* value: { isLoginLocked: false, lastUpdated } of line 39
DefaultValue == [isLoginLocked |-> FALSE, note |-> Omitted]

\* Config.findOne({ key: 'system_settings' }) for the reader in slot g: with
\* a document the handler answers its value; with none it goes on to create
\* one
ConfigFind(g, caller) ==
  /\ cfg[g].pc = "idle"
  /\ cfg' = [cfg EXCEPT ![g] =
       IF config = <<>>
       THEN [pc |-> "save", status |-> 0, value |-> <<>>, caller |-> caller]
       ELSE [pc |-> "done", status |-> 200, value |-> <<config[1]>>,
             caller |-> caller]]

\* GET /api/config of a client of the API (the administrator's dashboard
\* among them)
GetConfigFind(g) ==
  /\ ConfigFind(g, ApiCaller)
  /\ UNCHANGED <<core, more, config, reply, login>>

\* await config.save() of the new document: the insert is refused by the
\* unique index on key when a document has been stored since line 37 (the
\* catch answers 500); otherwise the handler answers the value it stored
GetConfigSave(g) ==
  /\ cfg[g].pc = "save"
  /\ IF config = <<>>
     THEN /\ config' = <<DefaultValue>>
          /\ cfg' = [cfg EXCEPT ![g].pc = "done", ![g].status = 200,
                                ![g].value = <<DefaultValue>>]
     ELSE /\ cfg' = [cfg EXCEPT ![g].pc = "done", ![g].status = 500,
                                ![g].value = <<>>]
          /\ UNCHANGED config
  /\ UNCHANGED <<core, more, reply, login>>

\* the reader has its answer; the slot serves the next reader
GetConfigReturn(g) ==
  /\ cfg[g].pc = "done"
  /\ cfg[g].caller = ApiCaller
  /\ cfg' = [cfg EXCEPT ![g] = IdleGet]
  /\ UNCHANGED <<core, more, config, reply, login>>

\* storageService.getSystemConfig: the body of the answer, or
\* { isLoginLocked: false, lastUpdated } when the answer is an error
GetSystemConfig(g) ==
  IF cfg[g].status = 200 THEN cfg[g].value ELSE <<DefaultValue>>

\* Config.findOneAndUpdate({ key }, { value: updatedValue }, { upsert: true }):
\* one store operation that $sets value as a whole on the document, or
\* inserts the document when there is none
PostConfig(body) ==
  /\ config' = IF config = <<>> THEN <<body>>
               ELSE [config EXCEPT ![1] = body]
  /\ reply' = [op |-> "POST /api/config", status |-> 200, role |-> "",
               found |-> config # <<>>]

\* SetConfig that lays the body over the stored value
SetConfigMerge(body) ==
  /\ config' = IF config = <<>> THEN <<body>>
               ELSE [config EXCEPT ![1].isLoginLocked = body.isLoginLocked,
                                   ![1].note = IF body.note = Omitted
                                               THEN @ ELSE body.note]
  /\ reply' = [op |-> "POST /api/config", status |-> 200, role |-> "",
               found |-> config # <<>>]
  /\ UNCHANGED <<core, more, cfg, login>>

\* POST /api/config of a client of the API
SetConfig(body) ==
  /\ PostConfig(body)
  /\ UNCHANGED <<core, more, cfg, login>>

\* ---- teacher dashboard: createSession -----------------------------------
\* mutant of DeactivateOwn: the teacher's own sessions keep their flag
DeactivateOwnSkipped(s, teacherId) == s

\* currentSessions.map(s => s.teacherId === auth.identifier ? ... : s)
DeactivateOwn(s, teacherId) ==
  IF s.teacherId = teacherId THEN [s EXCEPT !.isActive = FALSE] ELSE s

\* Date.now() moves on.  createSession is the only reader of the clock, so
\* the model lets it move only past a reading that a call has taken or that
\* is the id of a stored session
Tick ==
  /\ clock < MaxOpens
  /\ \/ SessionIndex(clock) # 0
     \/ \E o \in Opens : open[o].pc # "idle" /\ open[o].newId = clock
  /\ clock' = clock + 1
  /\ UNCHANGED <<students, sessions, mark, open, activeSession, endPc, site>>

\* the Start button (lines 67-79): newSession gets the id of Date.now(), the
\* callback keeps the sysConfig of the render in which it was called, and
\* getSessions is sent
CreateSession(o, teacherId) ==
  /\ open[o].pc = "idle"
  /\ \A q \in Opens : q < o => open[q].pc # "idle"
  /\ open' = [open EXCEPT ![o] = [pc |-> "get", teacherId |-> teacherId,
                                  newId |-> clock, pending |-> <<>>,
                                  sysConfig |-> dash[teacherId].sysConfig]]
  /\ UNCHANGED <<students, sessions, clock, mark, activeSession, endPc, site>>

\* the server serves getSessions of line 79; lines 80-85 make the list
\* handed to saveSessions
CreateSessionGet(o) ==
  /\ open[o].pc = "get"
  /\ LET teacherId == open[o].teacherId
         newSession == SessionDoc(open[o].newId, teacherId, TRUE, <<>>)
         currentSessions == GetSessions
         allSessions == [i \in 1..Len(currentSessions) |->
                           DeactivateOwn(currentSessions[i], teacherId)]
         updatedSessions == Append(allSessions, newSession)
     IN open' = [open EXCEPT ![o].pc = "saving",
                             ![o].pending = updatedSessions]
  /\ UNCHANGED <<students, sessions, clock, mark, activeSession, endPc, site>>

\* end of one iteration of the loop of saveSessions: the server has served
\* the request; after the last one the response is on its way to createSession
SaveNext(o) ==
  open' = IF Len(open[o].pending) = 1
          THEN [open EXCEPT ![o].pc = "saved", ![o].pending = <<>>]
          ELSE [open EXCEPT ![o].pending = Tail(@)]

\* session.isActive: POST /api/sessions, new Session(req.body).save()
SavePost(o) ==
  /\ open[o].pc = "saving"
  /\ Head(open[o].pending).isActive
  /\ SessionIndex(Head(open[o].pending).id) = 0
  /\ sessions' = Append(sessions, Head(open[o].pending))
  /\ SaveNext(o)
  /\ UNCHANGED <<students, clock, mark, activeSession, endPc, site>>

\* POST of a session whose id is stored already: save() rejects with a
\* duplicate key error, nothing is written.  The handler has no catch: the
\* client either gets an error response, which saveSessions ignores ...
SavePostDuplicate(o) ==
  /\ open[o].pc = "saving"
  /\ Head(open[o].pending).isActive
  /\ SessionIndex(Head(open[o].pending).id) # 0
  /\ SaveNext(o)
  /\ UNCHANGED <<students, sessions, clock, mark, activeSession, endPc, site>>

\* ... or gets no response at all: createSession never completes
SavePostDuplicateAbort(o) ==
  /\ open[o].pc = "saving"
  /\ Head(open[o].pending).isActive
  /\ SessionIndex(Head(open[o].pending).id) # 0
  /\ open' = [open EXCEPT ![o].pc = "aborted", ![o].pending = <<>>]
  /\ UNCHANGED <<students, sessions, clock, mark, activeSession, endPc, site>>

\* !session.isActive: PUT /api/sessions/:id with the session as read
SavePut(o) ==
  /\ open[o].pc = "saving"
  /\ ~Head(open[o].pending).isActive
  /\ sessions' = PutSession(sessions, Head(open[o].pending))
  /\ SaveNext(o)
  /\ UNCHANGED <<students, clock, mark, activeSession, endPc, site>>

\* lines 86-94, when saveSessions has returned: setActiveSession(newSession),
\* and with a sysConfig that is not locked the confirm dialog; on OK
\* toggleSysLock sends its request
CreateSessionFinish(o) ==
  /\ open[o].pc = "saved"
  /\ activeSession' = [activeSession EXCEPT ![open[o].teacherId] =
       <<SessionDoc(open[o].newId, open[o].teacherId, TRUE, <<>>)>>]
  /\ IF open[o].sysConfig # <<>> /\ ~open[o].sysConfig[1].isLoginLocked
     THEN \E ok \in BOOLEAN :
            open' = [open EXCEPT ![o].pc = IF ok THEN "lock" ELSE "done"]
     ELSE open' = [open EXCEPT ![o].pc = "done"]
  /\ UNCHANGED <<students, sessions, clock, mark, endPc, site>>

\* newConfig of toggleSysLock: { ...sysConfig, isLoginLocked: !... }
Toggled(sysConfig) == [sysConfig EXCEPT !.isLoginLocked = ~@]

\* the server serves the POST /api/config of toggleSysLock (line 92)
CreateSessionLock(o) ==
  /\ open[o].pc = "lock"
  /\ PostConfig(Toggled(open[o].sysConfig[1]))
  /\ open' = [open EXCEPT ![o].pc = "locked"]
  /\ UNCHANGED <<students, sessions, clock, mark, activeSession, endPc,
                 cfg, login, more>>

\* setSysConfig(newConfig) of line 42, and createSession returns
CreateSessionLocked(o) ==
  /\ open[o].pc = "locked"
  /\ dash' = [dash EXCEPT ![open[o].teacherId].sysConfig =
                <<Toggled(open[o].sysConfig[1])>>]
  /\ open' = [open EXCEPT ![o].pc = "done"]
  /\ UNCHANGED <<students, sessions, clock, mark, activeSession, endPc,
                 config, cfg, reply, login, teachers, reg, bulk>>

\* ---- teacher dashboard: endSession, refreshData -------------------------
\* the Stop button (lines 97-100): updated = { ...activeSession,
\* isActive: false } is built from the activeSession of the render and the
\* PUT is sent
EndSession(teacherId) ==
  /\ endPc[teacherId] = "idle"
  /\ activeSession[teacherId] # <<>>
  /\ dash' = [dash EXCEPT ![teacherId].updated =
                <<[activeSession[teacherId][1] EXCEPT !.isActive = FALSE]>>]
  /\ endPc' = [endPc EXCEPT ![teacherId] = "put"]
  /\ UNCHANGED <<students, sessions, clock, mark, open, activeSession,
                 config, cfg, reply, login, teachers, reg, bulk>>

\* the server serves the PUT of updateSession(updated)
EndSessionPut(teacherId) ==
  /\ endPc[teacherId] = "put"
  /\ sessions' = PutSession(sessions, dash[teacherId].updated[1])
  /\ dash' = [dash EXCEPT ![teacherId].updated = <<>>]
  /\ endPc' = [endPc EXCEPT ![teacherId] = "refresh"]
  /\ UNCHANGED <<students, clock, mark, open, activeSession,
                 config, cfg, reply, login, teachers, reg, bulk>>

\* allSessions.find(s => s.isActive) over the teacher's sessions
FirstActive(list, teacherId) ==
  LET own == SelectSeq(list, LAMBDA s : s.teacherId = teacherId /\ s.isActive)
  IN IF own = <<>> THEN <<>> ELSE <<Head(own)>>

\* await refreshData() at the end of endSession: the server serves
\* getSessions
EndSessionRefresh(teacherId) ==
  /\ endPc[teacherId] = "refresh"
  /\ dash' = [dash EXCEPT ![teacherId].refreshed =
                FirstActive(GetSessions, teacherId)]
  /\ endPc' = [endPc EXCEPT ![teacherId] = "apply"]
  /\ UNCHANGED <<students, sessions, clock, mark, open, activeSession,
                 config, cfg, reply, login, teachers, reg, bulk>>

\* setActiveSession(active || null) of refreshData, with the list as it was
\* read
EndSessionApply(teacherId) ==
  /\ endPc[teacherId] = "apply"
  /\ activeSession' = [activeSession EXCEPT ![teacherId] =
                         dash[teacherId].refreshed]
  /\ dash' = [dash EXCEPT ![teacherId].refreshed = <<>>]
  /\ endPc' = [endPc EXCEPT ![teacherId] = "idle"]
  /\ UNCHANGED <<students, sessions, clock, mark, open,
                 config, cfg, reply, login, teachers, reg, bulk>>

\* ---- teacher dashboard: the interval callback ---------------------------
\* allSessions.find(s => s.id === activeSession.id)
FindSession(list, id) ==
  LET same == SelectSeq(list, LAMBDA s : s.id = id)
  IN IF same = <<>> THEN <<>> ELSE <<Head(same)>>

\* the interval fires (lines 28-31): the callback has the activeSession of
\* the render that set the interval; with one, syncActiveSession sends
\* getSessions; with none, the callback sends getSystemConfig
RefreshInterval(teacherId) ==
  /\ dash[teacherId].pollPc = "idle"
  /\ dash' = [dash EXCEPT
       ![teacherId].pollPc =
          IF activeSession[teacherId] # <<>> THEN "sync" ELSE "config",
       ![teacherId].pollCopy = activeSession[teacherId]]
  /\ UNCHANGED <<core, config, cfg, reply, login, teachers, reg, bulk>>

\* the server serves getSessions of syncActiveSession (line 55); line 56
\* looks for the id of the copy the callback has
SyncActiveSession(teacherId) ==
  /\ dash[teacherId].pollPc = "sync"
  /\ dash' = [dash EXCEPT
       ![teacherId].pollPc = "synced",
       ![teacherId].pollGot =
          FindSession(GetSessions, dash[teacherId].pollCopy[1].id)]
  /\ UNCHANGED <<core, config, cfg, reply, login, teachers, reg, bulk>>

\* lines 56-63 with the list as it was read: the stored session replaces the
\* copy when its length or its flag differs from the captured one, and null
\* replaces it when the session is not in the list; the callback goes on to
\* getSystemConfig
SyncActiveSessionApply(teacherId) ==
  /\ dash[teacherId].pollPc = "synced"
  /\ LET latestActive == dash[teacherId].pollGot
         captured == dash[teacherId].pollCopy[1]
     IN activeSession' =
          IF latestActive = <<>>
          THEN [activeSession EXCEPT ![teacherId] = <<>>]
          ELSE IF \/ Len(latestActive[1].attendance)
                       # Len(captured.attendance)
                  \/ latestActive[1].isActive # captured.isActive
          THEN [activeSession EXCEPT ![teacherId] = latestActive]
          ELSE activeSession
  /\ dash' = [dash EXCEPT ![teacherId].pollPc = "config",
                          ![teacherId].pollCopy = <<>>,
                          ![teacherId].pollGot = <<>>]
  /\ UNCHANGED <<students, sessions, clock, mark, open, endPc,
                 config, cfg, reply, login, teachers, reg, bulk>>

\* getSystemConfig of line 31: the server runs Config.findOne
PollConfigFind(teacherId, g) ==
  /\ dash[teacherId].pollPc = "config"
  /\ ConfigFind(g, PollCaller(teacherId))
  /\ dash' = [dash EXCEPT ![teacherId].pollPc = "fetch"]
  /\ UNCHANGED <<core, config, reply, login, teachers, reg, bulk>>

\* setSysConfig(config) of line 32
PollConfigDone(teacherId, g) ==
  /\ cfg[g].pc = "done"
  /\ cfg[g].caller = PollCaller(teacherId)
  /\ dash' = [dash EXCEPT ![teacherId].pollPc = "idle",
                          ![teacherId].sysConfig = GetSystemConfig(g)]
  /\ cfg' = [cfg EXCEPT ![g] = IdleGet]
  /\ UNCHANGED <<core, config, reply, login, teachers, reg, bulk>>

\* ---- teacher dashboard: the mount effect --------------------------------
\* no callback of the dashboard is in flight
DashboardAtRest(teacherId) ==
  /\ endPc[teacherId] = "idle"
  /\ dash[teacherId].pollPc = "idle"
  /\ dash[teacherId].mountPc = "idle"
  /\ dash[teacherId].togglePc = "idle"
  /\ \A o \in Opens : open[o].teacherId = teacherId
                         => open[o].pc \in {"done", "aborted"}

\* the page is loaded again: the state of the component is the initial one
\* (activeSession and sysConfig null) and init() is called
Mount(teacherId) ==
  /\ DashboardAtRest(teacherId)
  /\ activeSession' = [activeSession EXCEPT ![teacherId] = <<>>]
  /\ dash' = [dash EXCEPT ![teacherId] = NewDash]
  /\ UNCHANGED <<students, sessions, clock, mark, open, endPc,
                 config, cfg, reply, login, teachers, reg, bulk>>

\* getTeacher has answered and the server runs Config.findOne for the
\* getSystemConfig of line 20
MountConfigFind(teacherId, g) ==
  /\ dash[teacherId].mountPc = "teacher"
  /\ ConfigFind(g, MountCaller(teacherId))
  /\ dash' = [dash EXCEPT ![teacherId].mountPc = "fetch"]
  /\ UNCHANGED <<core, config, reply, login, teachers, reg, bulk>>

\* setSysConfig(config) of line 21; init goes on to refreshData
MountConfigDone(teacherId, g) ==
  /\ cfg[g].pc = "done"
  /\ cfg[g].caller = MountCaller(teacherId)
  /\ dash' = [dash EXCEPT ![teacherId].mountPc = "sessions",
                          ![teacherId].sysConfig = GetSystemConfig(g)]
  /\ cfg' = [cfg EXCEPT ![g] = IdleGet]
  /\ UNCHANGED <<core, config, reply, login, teachers, reg, bulk>>

\* the server serves getSessions of refreshData (line 46)
MountGetSessions(teacherId) ==
  /\ dash[teacherId].mountPc = "sessions"
  /\ dash' = [dash EXCEPT ![teacherId].mountPc = "refresh",
                          ![teacherId].mountGot =
                             FirstActive(GetSessions, teacherId)]
  /\ UNCHANGED <<core, config, cfg, reply, login, teachers, reg, bulk>>

\* setActiveSession(active || null) of line 50
MountRefresh(teacherId) ==
  /\ dash[teacherId].mountPc = "refresh"
  /\ activeSession' = [activeSession EXCEPT ![teacherId] =
                         dash[teacherId].mountGot]
  /\ dash' = [dash EXCEPT ![teacherId].mountPc = "idle",
                          ![teacherId].mountGot = <<>>]
  /\ UNCHANGED <<students, sessions, clock, mark, open, endPc,
                 config, cfg, reply, login, teachers, reg, bulk>>

\* ---- teacher dashboard: toggleSysLock -----------------------------------
\* the TOGGLE button (lines 38-41): nothing without a sysConfig; newConfig
\* is built from the sysConfig of the render and setSystemConfig is sent
ToggleSysLock(teacherId) ==
  /\ dash[teacherId].togglePc = "idle"
  /\ dash[teacherId].sysConfig # <<>>
  /\ dash' = [dash EXCEPT
       ![teacherId].togglePc = "post",
       ![teacherId].toggleNew = <<Toggled(dash[teacherId].sysConfig[1])>>]
  /\ UNCHANGED <<core, config, cfg, reply, login, teachers, reg, bulk>>

\* the server serves the POST /api/config of setSystemConfig(newConfig)
ToggleSysLockPost(teacherId) ==
  /\ dash[teacherId].togglePc = "post"
  /\ PostConfig(dash[teacherId].toggleNew[1])
  /\ dash' = [dash EXCEPT ![teacherId].togglePc = "posted"]
  /\ UNCHANGED <<core, cfg, login, teachers, reg, bulk>>

\* setSysConfig(newConfig) of line 42
ToggleSysLockDone(teacherId) ==
  /\ dash[teacherId].togglePc = "posted"
  /\ dash' = [dash EXCEPT ![teacherId].togglePc = "idle",
                          ![teacherId].sysConfig = dash[teacherId].toggleNew,
                          ![teacherId].toggleNew = <<>>]
  /\ UNCHANGED <<core, config, cfg, reply, login, teachers, reg, bulk>>

\* ---- POST /api/auth/login -------------------------------------------------
\* Student.findOne({ rollNumber: idUpper, password: passTrimmed })
StudentMatch(identifier, password) ==
  StudentExists(identifier) /\ students[identifier].password = password

\* Admin.findOne({ identifier: idUpper, password: passTrimmed })
AdminMatch(identifier, password) ==
  [identifier |-> identifier, password |-> password] \in AdminRecords

\* Teacher.findOne({ identifier: idUpper, password: passTrimmed })
TeacherMatch(identifier, password) ==
  [identifier |-> identifier, password |-> password] \in teachers

\* config?.value?.isLoginLocked
IsLoginLocked == config # <<>> /\ config[1].isLoginLocked

LoginAnswer(status, finalRole) ==
  login' = [login EXCEPT !.pc = "done", !.status = status,
                         !.finalRole = finalRole]

\* the 400 of line 61, or Config.findOne of line 67
LoginRequest(role, identifier, password) ==
  /\ login.pc = "idle"
  /\ login' = IF identifier = <<>> \/ password = <<>>
              THEN [IdleLogin EXCEPT !.pc = "done", !.role = role,
                                     !.status = 400]
              ELSE [IdleLogin EXCEPT !.pc = "lookup", !.role = role,
                      !.identifier = ToUpperCase(Trim(identifier)),
                      !.password = Trim(password),
                      !.locked = IsLoginLocked]
  /\ UNCHANGED <<core, more, config, cfg, reply>>

\* LoginLookup with the lock looked at before the Admin collection
LoginLookupLockFirst ==
  /\ login.pc = "lookup"
  /\ IF login.locked
     THEN LoginAnswer(403, "")
     ELSE IF login.role = "STUDENT"
     THEN IF StudentMatch(login.identifier, login.password)
          THEN LoginAnswer(200, "STUDENT")
          ELSE LoginAnswer(401, "")
     ELSE IF AdminMatch(login.identifier, login.password)
     THEN LoginAnswer(200, "ADMIN")
     ELSE login' = [login EXCEPT !.pc = "teacher"]
  /\ UNCHANGED <<core, more, config, cfg, reply>>

\* lines 72-86: the student portal is refused when locked, otherwise asks
\* the Student collection; the other portal asks the Admin collection first
\* and is refused when locked only if that gives no document
LoginLookup ==
  /\ login.pc = "lookup"
  /\ IF login.role = "STUDENT"
     THEN IF login.locked
          THEN LoginAnswer(403, "")
          ELSE IF StudentMatch(login.identifier, login.password)
          THEN LoginAnswer(200, "STUDENT")
          ELSE LoginAnswer(401, "")
     ELSE IF AdminMatch(login.identifier, login.password)
     THEN LoginAnswer(200, "ADMIN")
     ELSE IF login.locked
     THEN LoginAnswer(403, "")
     ELSE login' = [login EXCEPT !.pc = "teacher"]
  /\ UNCHANGED <<core, more, config, cfg, reply>>

\* Teacher.findOne of line 85 and the answer of lines 90-97
LoginTeacher ==
  /\ login.pc = "teacher"
  /\ IF TeacherMatch(login.identifier, login.password)
     THEN LoginAnswer(200, "TEACHER")
     ELSE LoginAnswer(401, "")
  /\ UNCHANGED <<core, more, config, cfg, reply>>

\* the answer has reached the client
LoginReturn ==
  /\ login.pc = "done"
  /\ login' = IdleLogin
  /\ UNCHANGED <<core, more, config, cfg, reply>>

\* the switch of a dashboard (toggleLock of the administrator, toggleSysLock
\* of a teacher): the POST of its copy with the flag turned, which is either
\* value
LockSwitch ==
  \E isLoginLocked \in BOOLEAN :
    SetConfig([isLoginLocked |-> isLoginLocked, note |-> Omitted])

\* ---- PUT /api/sessions/:id called directly ------------------------------
\* PUT /api/sessions/:id with body { isActive }: findOneAndUpdate $sets the
\* one field; no document matches an unknown id and nothing is written.
\* res.json(...) answers 200 with the updated document, or with null when
\* findOneAndUpdate found none
UpdateSession(id, isActive) ==
  /\ sessions' = [i \in 1..Len(sessions) |->
                    IF sessions[i].id = id
                    THEN [sessions[i] EXCEPT !.isActive = isActive]
                    ELSE sessions[i]]
  /\ reply' = [op |-> "PUT /api/sessions/:id", status |-> 200, role |-> "",
               found |-> SessionIndex(id) # 0]
  /\ UNCHANGED <<students, clock, mark, open, activeSession, endPc,
                 config, cfg, login, more>>

\* ---- the responses reach the clients ------------------------------------
\* the response of the mark handler has reached the client
MarkRespond(r) ==
  /\ mark[r].pc = "done"
  /\ mark' = [mark EXCEPT ![r] = IdleMark]
  /\ UNCHANGED <<students, sessions, clock, open, activeSession, endPc, site>>

\* createSession has returned, or has been given up
CreateSessionReturn(o) ==
  /\ open[o].pc \in {"done", "aborted"}
  /\ open' = [open EXCEPT ![o] = IdleOpen]
  /\ UNCHANGED <<students, sessions, clock, mark, activeSession, endPc, site>>

\* ---- specification: every request and every callback, interleaved -------
\* ---- at every await ------------------------------------------------------
MarkStep == \E r \in Reqs :
  \/ \E id \in SessionIds, rollNumber \in RawRolls, deviceId \in Devices :
       MarkRequest(r, id, rollNumber, deviceId)
  \/ MarkFindStudent(r)
  \/ MarkFindOther(r)
  \/ MarkSaveStudent(r)
  \/ MarkSaveSession(r)

OpenStep == \E o \in Opens :
  \/ \E teacherId \in Teachers : CreateSession(o, teacherId)
  \/ CreateSessionGet(o)
  \/ SavePost(o)
  \/ SavePostDuplicate(o)
  \/ SavePostDuplicateAbort(o)
  \/ SavePut(o)
  \/ CreateSessionFinish(o)
  \/ CreateSessionLock(o)
  \/ CreateSessionLocked(o)

TeacherStep == \E teacherId \in Teachers :
  \/ EndSession(teacherId)
  \/ EndSessionPut(teacherId)
  \/ EndSessionRefresh(teacherId)
  \/ EndSessionApply(teacherId)
  \/ RefreshInterval(teacherId)
  \/ SyncActiveSession(teacherId)
  \/ SyncActiveSessionApply(teacherId)
  \/ \E g \in Gets : \/ PollConfigFind(teacherId, g)
                     \/ PollConfigDone(teacherId, g)
                     \/ MountConfigFind(teacherId, g)
                     \/ MountConfigDone(teacherId, g)
  \/ Mount(teacherId)
  \/ MountGetSessions(teacherId)
  \/ MountRefresh(teacherId)
  \/ ToggleSysLock(teacherId)
  \/ ToggleSysLockPost(teacherId)
  \/ ToggleSysLockDone(teacherId)

AdminStep ==
  \/ \E id \in RawRolls : DeleteStudent(id) \/ ResetDevice(id)
  \/ \E body \in RegisterBodies : RegisterRequest(body)
  \/ RegisterSaveStudent
  \/ RegisterFindAdmin
  \/ RegisterSaveTeacher
  \/ RegisterReturn
  \/ \E id \in LoginIdentifiers : DeleteTeacher(id)
  \/ \E studentsData \in BulkBodies : BulkRequest(studentsData)
  \/ BulkFind
  \/ BulkSave
  \/ BulkReturn

ConfigStep ==
  \/ \E g \in Gets : \/ GetConfigFind(g)
                     \/ GetConfigSave(g)
                     \/ GetConfigReturn(g)
  \/ \E body \in ConfigValues : SetConfig(body)

LoginStep ==
  \/ \E role \in Portals, identifier \in LoginIdentifiers,
        password \in Passwords : LoginRequest(role, identifier, password)
  \/ LoginLookup
  \/ LoginTeacher
  \/ LoginReturn

ReturnStep ==
  \/ \E r \in Reqs : MarkRespond(r)
  \/ \E o \in Opens : CreateSessionReturn(o)

ApiStep == \E id \in SessionIds, isActive \in BOOLEAN : UpdateSession(id, isActive)

Next ==
  \/ MarkStep
  \/ OpenStep
  \/ TeacherStep
  \/ AdminStep
  \/ ConfigStep
  \/ LoginStep
  \/ ReturnStep
  \/ ApiStep
  \/ Tick

Spec == Init /\ [][Next]_vars

\* ---- specification: check-ins, createSession and endSession interleaved ---
\* ---- at every await; each slot serves one call --------------------------
RaceOpen == \E o \in Opens :
  \/ \E teacherId \in Teachers : CreateSession(o, teacherId)
  \/ CreateSessionGet(o)
  \/ SavePost(o)
  \/ SavePostDuplicate(o)
  \/ SavePostDuplicateAbort(o)
  \/ SavePut(o)
  \/ CreateSessionFinish(o)

RaceTeacher == \E teacherId \in Teachers :
  \/ EndSession(teacherId)
  \/ EndSessionPut(teacherId)
  \/ EndSessionRefresh(teacherId)
  \/ EndSessionApply(teacherId)

NextRace == MarkStep \/ RaceOpen \/ RaceTeacher \/ Tick

SpecRace == Init /\ [][NextRace]_vars

\* ---- specification: check-ins, deletions and resets interleaved at every --
\* ---- await, in the one session that a teacher opens ----------------------
\* the first createSession: the store has no session yet and no other call
\* is on its way
FirstOpen ==
  /\ sessions = <<>>
  /\ \A o \in Opens : open[o].pc = "idle"
  /\ \E o \in Opens, teacherId \in Teachers : CreateSession(o, teacherId)

\* the steps of that createSession: there is no other session to save
FirstOpenContinue ==
  \E o \in Opens : CreateSessionGet(o) \/ SavePost(o) \/ CreateSessionFinish(o)

RaceAdmin == \E id \in RawRolls : DeleteStudent(id) \/ ResetDevice(id)

NextBind == MarkStep \/ FirstOpen \/ FirstOpenContinue \/ RaceAdmin

SpecBind == Init /\ [][NextBind]_vars

\* ---- specification: teachers and students, one operation at a time ------
\* no handler and no dashboard call is in flight (init() of a dashboard may
\* still wait for its first answer)
NoneInFlight ==
  /\ \A r \in Reqs : mark[r].pc = "idle"
  /\ \A o \in Opens : open[o].pc = "idle"
  /\ \A t \in Teachers : /\ endPc[t] = "idle"
                         /\ dash[t].pollPc = "idle"
                         /\ dash[t].togglePc = "idle"
                         /\ dash[t].mountPc \in {"teacher", "idle"}
  /\ reg.pc = "idle"
  /\ bulk.pc = "idle"

\* a call takes longer than a millisecond: when the next one starts, the
\* clock has moved past the reading createSession took (Date.now() is read
\* by createSession alone; the browsers' clocks are taken as one)
Quiescent ==
  /\ NoneInFlight
  /\ SessionIndex(clock) = 0 \/ clock = MaxOpens

SeqMarkRequest ==
  /\ Quiescent
  /\ \E r \in Reqs, id \in SessionIds, rollNumber \in RawRolls,
        deviceId \in Devices : MarkRequest(r, id, rollNumber, deviceId)

\* the id of the new session is the reading of a clock that has moved on.
\* The two dashboards start alike and run the same code: the teacher who
\* opens the first session is called T1
SeqCreateSession ==
  /\ Quiescent
  /\ SessionIndex(clock) = 0
  /\ \E o \in Opens, teacherId \in Teachers :
       /\ sessions = <<>> => teacherId = "T1"
       /\ CreateSession(o, teacherId)

\* time passes between two calls
SeqTick == NoneInFlight /\ Tick

SeqEndSession == Quiescent /\ \E teacherId \in Teachers : EndSession(teacherId)

\* the continuation of request r after an await: the event loop runs it once
\* the store has answered
MarkContinue(r) ==
  \/ MarkFindStudent(r)
  \/ MarkFindOther(r)
  \/ MarkSaveStudent(r)
  \/ MarkSaveSession(r)

\* the steps of createSession and of endSession after the first
SeqDashContinue ==
  \/ \E o \in Opens : \/ CreateSessionGet(o)
                      \/ SavePost(o)
                      \/ SavePostDuplicate(o)
                      \/ SavePostDuplicateAbort(o)
                      \/ SavePut(o)
                      \/ CreateSessionFinish(o)
  \/ \E teacherId \in Teachers : \/ EndSessionPut(teacherId)
                                 \/ EndSessionRefresh(teacherId)
                                 \/ EndSessionApply(teacherId)

SeqContinue ==
  \/ \E r \in Reqs : MarkContinue(r)
  \/ SeqDashContinue

\* a request sent to the API directly: the body carries any department and
\* section, or leaves them out
SeqMarkRequestBody ==
  /\ Quiescent
  /\ \E r \in Reqs, id \in SessionIds, rollNumber \in RawRolls,
        deviceId \in Devices, department \in Departments,
        section \in Sections :
       MarkRequestBody(r, id, rollNumber, deviceId, department, section)

NextSeq ==
  \/ SeqMarkRequest
  \/ SeqCreateSession
  \/ SeqTick
  \/ SeqEndSession
  \/ SeqContinue
  \/ ReturnStep

SpecSeq == Init /\ [][NextSeq]_vars

\* ---- specification: SpecSeq plus direct calls of the update endpoint ----
ApiUpdateSession ==
  /\ Quiescent
  /\ \E id \in SessionIds, isActive \in BOOLEAN : UpdateSession(id, isActive)

NextApi == NextSeq \/ ApiUpdateSession

SpecApi == Init /\ [][NextApi]_vars

\* ---- specification: students, teachers and the administrator's ----------
\* ---- deletions and resets, one operation at a time -----------------------
SeqAdmin == Quiescent /\ RaceAdmin

NextAdm ==
  \/ SeqMarkRequest
  \/ SeqCreateSession
  \/ SeqTick
  \/ SeqEndSession
  \/ SeqAdmin
  \/ SeqContinue
  \/ ReturnStep

SpecAdm == Init /\ [][NextAdm]_vars

\* ---- specification: SpecAdm with a store that can reject the writes ------
StoreFault ==
  \E r \in Reqs : MarkSaveStudentFails(r) \/ MarkSaveSessionFails(r)

NextFault == NextAdm \/ StoreFault

SpecFault == Init /\ [][NextFault]_vars

\* ---- specification: SpecSeq with a store that can reject the writes ------
NextCommit == NextSeq \/ StoreFault

SpecCommit == Init /\ [][NextCommit]_vars

\* ---- specification: one operation at a time, except that the ------------
\* ---- administrator resets devices at any moment -------------------------
NextReset ==
  \/ SeqMarkRequest
  \/ SeqCreateSession
  \/ SeqTick
  \/ SeqEndSession
  \/ SeqContinue
  \/ ReturnStep
  \/ \E id \in RawRolls : ResetDevice(id)

SpecReset == Init /\ [][NextReset]_vars

\* ---- specification: requests with any body, one operation at a time -----
NextBody ==
  \/ SeqMarkRequestBody
  \/ SeqCreateSession
  \/ SeqTick
  \/ SeqEndSession
  \/ SeqContinue
  \/ ReturnStep

SpecBody == Init /\ [][NextBody]_vars

\* ---- specification: check-ins interleaved with each other and with the ---
\* ---- teachers' and the administrator's operations, every check-in going on
\* a teacher starts createSession or endSession, or time passes, while no
\* other call of a dashboard is in flight; check-ins may be at any step.
\* The id of a new session is the reading of a clock that has moved on, and
\* the teacher who opens the first session is called T1
LiveDashboard ==
  /\ \A o \in Opens : open[o].pc = "idle"
  /\ \A teacherId \in Teachers : endPc[teacherId] = "idle"
  /\ \/ Tick
     \/ /\ SessionIndex(clock) = 0
        /\ \E o \in Opens, teacherId \in Teachers :
             /\ sessions = <<>> => teacherId = "T1"
             /\ CreateSession(o, teacherId)
     \/ /\ SessionIndex(clock) = 0 \/ clock = MaxOpens
        /\ \E teacherId \in Teachers : EndSession(teacherId)

\* the check-ins at every await, the steps of the dashboards' calls between
\* any two of them, and deletions and device resets at any moment
NextLive ==
  \/ MarkStep
  \/ LiveDashboard
  \/ SeqDashContinue
  \/ \E o \in Opens : CreateSessionReturn(o)
  \/ RaceAdmin

SpecLive ==
  /\ Init
  /\ [][NextLive]_vars
  /\ \A r \in Reqs : WF_vars(MarkContinue(r))

\* ---- specification: readers and writers of the configuration, -----------
\* ---- interleaved at every await ------------------------------------------
SpecConfig == Init /\ [][ConfigStep]_vars

\* ---- specification: logins and check-ins, with the lock switched and ------
\* ---- teachers deleted at any moment, and teachers registered --------------
\* the first createSession, before the check-ins begin
OpenFirst == Quiescent /\ FirstOpen

\* its steps, and its return
OpenFirstContinue ==
  \/ FirstOpenContinue
  \/ \E o \in Opens : CreateSessionReturn(o)

\* a registration through the teachers' form (or with a role the handler
\* refuses), sent while no other request is in flight
SeqRegister ==
  /\ Quiescent
  /\ login.pc = "idle"
  /\ \E body \in RegisterBodies :
       body.role # "STUDENT" /\ RegisterRequest(body)

NextLogin ==
  \/ SeqTick
  \/ LoginStep
  \/ LockSwitch
  \/ SeqRegister
  \/ RegisterFindAdmin
  \/ RegisterSaveTeacher
  \/ RegisterReturn
  \/ \E id \in LoginIdentifiers : DeleteTeacher(id)
  \/ OpenFirst
  \/ OpenFirstContinue
  \/ SeqMarkRequest
  \/ \E r \in Reqs : MarkContinue(r) \/ MarkRespond(r)

SpecLogin == Init /\ [][NextLogin]_vars

\* ---- specification: the teachers' dashboards, one callback at a time ----
\* (mount, interval, toggle, createSession, endSession), without check-ins
SeqDashboard ==
  /\ Quiescent
  /\ \E teacherId \in Teachers :
       \/ Mount(teacherId)
       \/ RefreshInterval(teacherId)
       \/ ToggleSysLock(teacherId)
       \/ \E g \in Gets : MountConfigFind(teacherId, g)

DashboardContinue ==
  \/ \E teacherId \in Teachers :
       \/ SyncActiveSession(teacherId)
       \/ SyncActiveSessionApply(teacherId)
       \/ MountGetSessions(teacherId)
       \/ MountRefresh(teacherId)
       \/ ToggleSysLockPost(teacherId)
       \/ ToggleSysLockDone(teacherId)
       \/ \E g \in Gets :
            \/ PollConfigFind(teacherId, g)
            \/ PollConfigDone(teacherId, g)
            \/ MountConfigDone(teacherId, g)
  \/ \E g \in Gets : GetConfigSave(g)
  \/ \E o \in Opens : CreateSessionLock(o) \/ CreateSessionLocked(o)

NextDash ==
  \/ SeqCreateSession
  \/ SeqTick
  \/ SeqEndSession
  \/ SeqDashboard
  \/ SeqDashContinue
  \/ DashboardContinue
  \/ \E o \in Opens : CreateSessionReturn(o)

SpecDash == Init /\ [][NextDash]_vars

\* ---- specification: registrations, imports, deletions and resets, -------
\* ---- interleaved at every await ------------------------------------------
SpecRoster == Init /\ [][AdminStep]_vars

\* ---- helpers of the properties ------------------------------------------
ActiveOf(teacherId) ==
  {i \in 1..Len(sessions) :
     sessions[i].teacherId = teacherId /\ sessions[i].isActive}

IsPrefix(s, t) == Len(s) <= Len(t) /\ SubSeq(t, 1, Len(s)) = s

Succeeded(r) == mark[r].pc = "done" /\ mark[r].result = "Success"

\* ---- properties ---------------------------------------------------------

\* C1: no session's attendance list holds two entries with the same
\* normalized identifier.
C1_UniqueRollPerSession ==
  \A i \in 1..Len(sessions) :
    \A j, k \in 1..Len(sessions[i].attendance) :
      j # k => sessions[i].attendance[j].rollNumber
                 # sessions[i].attendance[k].rollNumber

\* C2: of two markAttendance requests for the same identifier and the same
\* session, one wins and the other does not: they never both return
\* success.
C2_OneWinnerPerIdentifier ==
  \A r1, r2 \in Reqs :
    (/\ r1 # r2
     /\ mark[r1].id = mark[r2].id
     /\ mark[r1].roll = mark[r2].roll
     /\ Succeeded(r1))
    => ~Succeeded(r2)

\* C3: at most one student document holds any given device token.
C3_UniqueDeviceBinding ==
  \A a, b \in Rolls :
    (/\ a # b
     /\ students[a].present
     /\ students[b].present
     /\ students[a].deviceId # NoDevice)
    => students[a].deviceId # students[b].deviceId

\* C4: Scenario E: two requests presenting the same device token for two
\* different students in the same session, with neither student reset or
\* deleted (both documents still hold the token they presented), never both
\* return success, and the session never holds an entry of each of them
\* carrying that token.
C4_ScenarioE_OneClaimant ==
  \A r1, r2 \in Reqs :
    (/\ r1 # r2
     /\ mark[r1].id = mark[r2].id
     /\ mark[r1].deviceId = mark[r2].deviceId
     /\ mark[r1].roll # mark[r2].roll
     /\ Succeeded(r1)
     /\ students[mark[r1].roll].deviceId = mark[r1].deviceId
     /\ students[mark[r2].roll].deviceId = mark[r2].deviceId)
    => /\ ~Succeeded(r2)
       /\ LET att == sessions[SessionIndex(mark[r1].id)].attendance
          IN ~(/\ \E j \in 1..Len(att) :
                     att[j] = AttendanceRecord(mark[r1].roll,
                                mark[r1].department, mark[r1].section,
                                mark[r1].deviceId)
               /\ \E j \in 1..Len(att) :
                     att[j] = AttendanceRecord(mark[r2].roll,
                                mark[r2].department, mark[r2].section,
                                mark[r2].deviceId))

\* C5: a device token that is set stays the same in every step that is not
\* a reset-device (or the deletion of the document).
C5_TokenImmutableUntilReset ==
  [][\/ \E id \in RawRolls : ResetDevice(id)
     \/ \A roll \in Rolls :
          (/\ students[roll].present
           /\ students[roll].deviceId # NoDevice
           /\ students'[roll].present)
          => students'[roll].deviceId = students[roll].deviceId]_vars

\* C6: with the operations run one at a time, every teacher has at most one
\* active session in every state, and in the state in which a createSession
\* of teacher T completes exactly one session of T is active, the one it
\* created.
C6_SequentialOpenOneActive ==
  /\ [](\A t \in Teachers : Cardinality(ActiveOf(t)) <= 1)
  /\ [][\A o \in Opens :
          (open[o].pc # "done" /\ open'[o].pc = "done")
          => (/\ Cardinality(ActiveOf(open[o].teacherId)') = 1
              /\ \A i \in ActiveOf(open[o].teacherId)' :
                   sessions'[i].id = open'[o].newId)]_vars

\* witness of C6 (Scenario D): a createSession of a teacher who had a
\* session before has completed, the earlier session is stored inactive and
\* the new session is the active one
C6_Witness ==
  \E o \in Opens :
    /\ open[o].pc = "done"
    /\ \E i \in 1..Len(sessions) :
         /\ sessions[i].teacherId = open[o].teacherId
         /\ sessions[i].id < open[o].newId
         /\ ~sessions[i].isActive
    /\ ActiveOf(open[o].teacherId) = {SessionIndex(open[o].newId)}

\* C7: at most one session of a teacher is active in every state, also
\* when createSession calls interleave.
C7_OneActivePerIssuer ==
  \A t \in Teachers : \A i, j \in ActiveOf(t) : i = j

\* C8: attendance is append-only: every step leaves each stored attendance
\* list a prefix of the list after the step.
C8_AppendOnly ==
  [][\A i \in 1..Len(sessions) :
       IsPrefix(sessions[i].attendance, sessions'[i].attendance)]_vars

\* C9: the attendance list of a session whose isActive flag is false does
\* not grow.
C9_NoGrowthWhenClosed ==
  [][\A i \in 1..Len(sessions) :
       ~sessions[i].isActive
       => Len(sessions'[i].attendance) <= Len(sessions[i].attendance)]_vars

\* C10: a session whose isActive flag is false never gets it back to true.
C10_ClosedIsTerminal ==
  [][\A i \in 1..Len(sessions) :
       ~sessions[i].isActive => ~sessions'[i].isActive]_vars

\* ---- the check-in contract, one request at a time ------------------------
\* the reason the first failing check of a request gives in the current
\* state, "none" when all five pass
FirstFailingCheck(id, roll, deviceId) ==
  IF ~\E i \in 1..Len(sessions) : sessions[i].id = id /\ sessions[i].isActive
  THEN "SessionNotActive"
  ELSE IF \E i \in 1..Len(sessions) :
            /\ sessions[i].id = id
            /\ \E k \in 1..Len(sessions[i].attendance) :
                 sessions[i].attendance[k].rollNumber = roll
  THEN "AlreadyMarked"
  ELSE IF ~(roll \in Rolls /\ students[roll].present)
  THEN "UnknownIdentity"
  ELSE IF students[roll].deviceId \notin {NoDevice, deviceId}
  THEN "DeviceConflict"
  ELSE IF \E other \in Rolls \ {roll} :
            students[other].present /\ students[other].deviceId = deviceId
  THEN "DeviceAlreadyUsedBy"
  ELSE "none"

\* the step in which request r gets its answer
Answers(r) == mark[r].pc # "done" /\ mark'[r].pc = "done"

\* C11: a request that runs alone answers with the reason of the first check
\* that fails in the state it runs in, the checks taken in the order session
\* active, not yet marked, student known, own device binding, device held by
\* another student; it answers Success exactly when none of them fails.
C11_FirstFailingCheckDecides ==
  [][\A r \in Reqs :
       Answers(r) /\ mark'[r].result # "Internal" =>
         LET reason == FirstFailingCheck(mark'[r].id, mark'[r].roll,
                                         mark'[r].deviceId)
         IN mark'[r].result = IF reason = "none" THEN "Success" ELSE reason]_vars

\* a request was refused for its student's own binding although its device
\* is also the one of another student
C11_Witness ==
  \E r \in Reqs :
    /\ mark[r].pc = "done"
    /\ mark[r].result = "DeviceConflict"
    /\ OtherStudentWithDevice(mark[r].deviceId, mark[r].roll)

\* the reasons of the five checks
FailureReasons ==
  {"SessionNotActive", "AlreadyMarked", "UnknownIdentity", "DeviceConflict",
   "DeviceAlreadyUsedBy"}

\* the request is at one of its checks (lines 200 to 207)
Checking(r) ==
  mark[r].pc \in {"idle", "findStudent", "findOtherUnbound", "findOtherBound"}

\* the request is at its commit (lines 208 to 210)
Committing(r) ==
  mark[r].pc \in {"saveStudent", "saveSession", "saveSessionAfterBind"}

\* C12: a request that answers with one of the five failure reasons has
\* written nothing: every step a request takes at its checks leaves the
\* student records and the sessions as they are, and a request that has got
\* to its commit never answers with one of the five reasons.
C12_FailureWritesNothing ==
  [][\A r \in Reqs :
       mark'[r] # mark[r] =>
         /\ Checking(r) => students' = students /\ sessions' = sessions
         /\ Committing(r) => mark'[r].result \notin FailureReasons]_vars

\* an unbound student was refused for presenting another student's device,
\* one step before the binding would have been written
C12_Witness ==
  \E r \in Reqs :
    /\ mark[r].pc = "done"
    /\ mark[r].result = "DeviceAlreadyUsedBy"
    /\ students[mark[r].roll].present
    /\ students[mark[r].roll].deviceId = NoDevice

\* session i of the store lists the roll
Listed(i, roll) ==
  \E k \in 1..Len(sessions[i].attendance) :
    sessions[i].attendance[k].rollNumber = roll

\* request r arrives at the server
Arrives(r) == mark[r].pc = "idle" /\ mark'[r].pc # "idle"

\* C13: once a check-in of student A in session S has succeeded, every later
\* request for A in S while S is active answers AlreadyMarked, whatever
\* device it presents, and adds no entry. With requests run one at a time:
\* a request that has just succeeded has its entry in S; the entry stays as
\* long as S is active; a closed session is not active again; and a request
\* that arrives for a roll listed in the active session it names is answered
\* AlreadyMarked at once and writes nothing.
C13_ScenarioA_AlreadyMarked ==
  /\ [](\A r \in Reqs :
         Succeeded(r) =>
           \E i \in 1..Len(sessions) :
             sessions[i].id = mark[r].id /\ Listed(i, mark[r].roll))
  /\ [][/\ \A i \in 1..Len(sessions) :
            /\ sessions'[i].id = sessions[i].id
            /\ ~sessions[i].isActive => ~sessions'[i].isActive
            /\ \A roll \in Rolls :
                 Listed(i, roll) /\ sessions'[i].isActive => Listed(i, roll)'
        /\ \A r \in Reqs :
             /\ Arrives(r)
             /\ \E i \in 1..Len(sessions) :
                  /\ sessions[i].id = mark'[r].id
                  /\ sessions[i].isActive
                  /\ Listed(i, mark'[r].roll)
             => /\ mark'[r].pc = "done"
                /\ mark'[r].result = "AlreadyMarked"
                /\ sessions' = sessions
                /\ students' = students]_vars

\* a student listed in an active session asked again with another device than
\* the one of the entry and was answered AlreadyMarked
C13_Witness ==
  \E r \in Reqs : \E i \in 1..Len(sessions) :
    /\ mark[r].pc = "done"
    /\ mark[r].result = "AlreadyMarked"
    /\ sessions[i].id = mark[r].id
    /\ sessions[i].isActive
    /\ \E k \in 1..Len(sessions[i].attendance) :
         /\ sessions[i].attendance[k].rollNumber = mark[r].roll
         /\ sessions[i].attendance[k].deviceId # mark[r].deviceId

\* request r names an active session that does not list its roll
OpenForRoll(r) ==
  \E i \in 1..Len(sessions) :
    /\ sessions[i].id = mark[r].id
    /\ sessions[i].isActive
    /\ ~Listed(i, mark[r].roll)

\* request r comes from an unbound student B with a device that the record
\* of another student A holds, for an active session that does not list B
ScenarioB(r) ==
  /\ mark[r].pc # "idle"
  /\ OpenForRoll(r)
  /\ students[mark[r].roll].present
  /\ students[mark[r].roll].deviceId = NoDevice
  /\ \E other \in Rolls \ {mark[r].roll} :
       /\ students[other].present
       /\ students[other].deviceId = mark[r].deviceId

\* C14: while the record of student A holds device D1, a check-in of another,
\* unbound student B that presents D1 (in an active session that does not
\* list B yet) never gets to its commit and is answered DeviceAlreadyUsedBy:
\* B stays unbound and gets no entry.
C14_ScenarioB_DeviceAlreadyUsed ==
  \A r \in Reqs :
    ScenarioB(r) =>
      /\ ~Committing(r)
      /\ mark[r].pc = "done" => mark[r].result = "DeviceAlreadyUsedBy"

\* such a request has been answered
C14_Witness ==
  \E r \in Reqs :
    ScenarioB(r) /\ mark[r].pc = "done" /\ mark[r].result = "DeviceAlreadyUsedBy"

\* request r comes from a student whose record holds another device than
\* the one presented, for an active session that does not list the student
ScenarioC(r) ==
  /\ mark[r].pc # "idle"
  /\ OpenForRoll(r)
  /\ students[mark[r].roll].present
  /\ students[mark[r].roll].deviceId \notin {NoDevice, mark[r].deviceId}

\* C15: a check-in of a student whose record is bound to D1 and who presents
\* another device D2 (in an active session that does not list the student
\* yet) stops at the student's record and is answered DeviceConflict: it
\* reaches neither the device query nor the commit, so the attendance and the
\* bound device stay as they are.
C15_ScenarioC_DeviceConflict ==
  \A r \in Reqs :
    ScenarioC(r) =>
      /\ mark[r].pc \in {"findStudent", "done"}
      /\ mark[r].pc = "done" => mark[r].result = "DeviceConflict"

\* such a request has been answered
C15_Witness ==
  \E r \in Reqs :
    ScenarioC(r) /\ mark[r].pc = "done" /\ mark[r].result = "DeviceConflict"

\* C16: a request that names a session id the store does not have, or one
\* whose isActive flag is false, is answered SessionNotActive on arrival and
\* changes no session and no student record, whoever the student is and
\* whatever device is presented.
C16_ScenarioF_SessionNotActive ==
  [][\A r \in Reqs :
       /\ Arrives(r)
       /\ ~\E i \in 1..Len(sessions) :
            sessions[i].id = mark'[r].id /\ sessions[i].isActive
       => /\ mark'[r].pc = "done"
          /\ mark'[r].result = "SessionNotActive"
          /\ sessions' = sessions
          /\ students' = students]_vars

\* an unbound student with a device no record holds was answered
\* SessionNotActive for a closed session that does not list the student
C16_Witness ==
  \E r \in Reqs : \E i \in 1..Len(sessions) :
    /\ mark[r].pc = "done"
    /\ mark[r].result = "SessionNotActive"
    /\ sessions[i].id = mark[r].id
    /\ ~sessions[i].isActive
    /\ ~Listed(i, mark[r].roll)
    /\ students[mark[r].roll].present
    /\ students[mark[r].roll].deviceId = NoDevice
    /\ \A other \in Rolls : students[other].deviceId # mark[r].deviceId

\* C17: a successful check-in, run alone, leaves the student's record bound
\* to the presented device (a record that had a device keeps it through the
\* request, a record that had none gets the presented one), and appends
\* exactly one entry, with the normalised roll and the presented device, to
\* the session it names; no other step of the request and no other session
\* is touched.
C17_SuccessBindsAndAppendsOnce ==
  [][\A r \in Reqs :
       mark'[r] # mark[r] =>
         /\ \A roll \in Rolls :
              students[roll].deviceId # NoDevice =>
                students'[roll] = students[roll]
         /\ IF Answers(r) /\ mark'[r].result = "Success"
            THEN /\ mark[r].roll \in Rolls
                 /\ students'[mark[r].roll].present
                 /\ students'[mark[r].roll].deviceId = mark[r].deviceId
                 /\ \E i \in 1..Len(sessions) :
                      /\ sessions[i].id = mark[r].id
                      /\ sessions' = [sessions EXCEPT ![i].attendance =
                           Append(@, [rollNumber |-> mark[r].roll,
                                      department |-> mark[r].department,
                                      section |-> mark[r].section,
                                      deviceId |-> mark[r].deviceId])]
            ELSE sessions' = sessions]_vars

\* a student listed in an earlier session, so bound before, has checked in
\* to another session
C17_Witness ==
  \E r \in Reqs : \E j \in 1..Len(sessions) :
    /\ Succeeded(r)
    /\ sessions[j].id # mark[r].id
    /\ Listed(j, mark[r].roll)

\* ---- the check-in contract when the store rejects a write ----------------
\* C18: a request that is answered with the Internal error has left nothing
\* behind: the sessions are as before, and a device binding the request wrote
\* itself is no longer in the student's record.
C18_FailedCommitLeavesNothing ==
  [][\A r \in Reqs :
       Answers(r) /\ mark'[r].result = "Internal" =>
         /\ sessions' = sessions
         /\ mark[r].pc = "saveSessionAfterBind" =>
              students'[mark[r].roll].deviceId # mark[r].deviceId]_vars

\* ---- closing and opening sessions ---------------------------------------
\* the step in which the server serves the PUT of the teacher's endSession
Closes(teacherId) ==
  endPc[teacherId] = "put" /\ endPc'[teacherId] = "refresh"

\* C19: endSession on a session that the store already holds as closed
\* changes nothing: the session keeps its flag and its attendance, and every
\* other session and every student record is as before.
C19_CloseIsIdempotent ==
  [][\A teacherId \in Teachers :
       /\ Closes(teacherId)
       /\ \E i \in 1..Len(sessions) :
            /\ sessions[i].id = dash[teacherId].updated[1].id
            /\ ~sessions[i].isActive
       => sessions' = sessions /\ students' = students]_vars

\* C20: createSession of a teacher, with the sessions of other teachers in
\* the store, runs to its end and leaves its new session stored and active;
\* no step of it changes the isActive flag of another teacher's session or
\* the attendance of another teacher's active session.
C20_OpenLeavesOtherIssuers ==
  [][\A o \in Opens :
       open[o].pc = "saving" /\ open'[o] # open[o] =>
         /\ open'[o].pc # "aborted"
         /\ \A i \in 1..Len(sessions) :
              sessions[i].teacherId # open[o].teacherId =>
                /\ sessions'[i].isActive = sessions[i].isActive
                /\ sessions[i].isActive =>
                     sessions'[i].attendance = sessions[i].attendance
         /\ open'[o].pc = "saved" =>
              \E i \in 1..Len(sessions') :
                /\ sessions'[i].id = open[o].newId
                /\ sessions'[i].teacherId = open[o].teacherId
                /\ sessions'[i].isActive]_vars

\* C21: an update addressed to a session id the store does not have is
\* answered as not found (status 404) and leaves the sessions as they are.
C21_UpdateOfUnknownIdIsNotFound ==
  [][\A id \in SessionIds, isActive \in BOOLEAN :
       /\ UpdateSession(id, isActive)
       /\ ~\E i \in 1..Len(sessions) : sessions[i].id = id
       => reply'.status = 404 /\ sessions' = sessions]_vars

\* ---- devices and rosters -------------------------------------------------
\* C22: no session lists two different roll numbers with the same device.
C22_AntiProxy ==
  \A i \in 1..Len(sessions) :
    \A k, l \in 1..Len(sessions[i].attendance) :
      sessions[i].attendance[k].rollNumber # sessions[i].attendance[l].rollNumber
        => sessions[i].attendance[k].deviceId # sessions[i].attendance[l].deviceId

\* request r is between its arrival and its answer
InFlight(r) == mark[r].pc \notin {"idle", "done"}

\* C23, as the claim has it: device resets may come at any moment of a
\* check-in (the check-ins themselves one at a time).  In every state no two
\* student records hold the same device and no session lists a roll twice;
\* and a request on which no check fails (active session without an entry of
\* the student, a device no other record holds) is answered with success and
\* leaves the student's record holding the presented device.
C23_NextCheckInLeavesBound ==
  /\ [](/\ \A a, b \in Rolls :
            /\ a # b
            /\ students[a].present /\ students[b].present
            /\ students[a].deviceId # NoDevice
            => students[a].deviceId # students[b].deviceId
        /\ \A i \in 1..Len(sessions) :
            \A k, l \in 1..Len(sessions[i].attendance) :
              k # l => sessions[i].attendance[k].rollNumber
                         # sessions[i].attendance[l].rollNumber)
  /\ [][\A r \in Reqs :
         /\ InFlight(r)
         /\ mark'[r].pc = "done"
         /\ FirstFailingCheck(mark[r].id, mark[r].roll,
                              mark[r].deviceId) = "none"
         => /\ mark'[r].result = "Success"
            /\ students'[mark[r].roll].deviceId = mark[r].deviceId]_vars

\* C23, amended: device resets may come at any moment of a check-in (the
\* check-ins themselves one at a time).  In every state no two student
\* records hold the same device and no session lists a roll twice.  A request
\* for which no check fails when it arrives (active session without an entry
\* of the student, a device no other record holds) is not refused on arrival,
\* keeps passing every check whatever is reset meanwhile, and is answered
\* with success; its binding step writes the presented device, and no step
\* of a request clears a device.  At the successful answer the student's
\* record holds the presented device or, after a reset, none, never another
\* one; and a record loses its device only in a step of the administrator
\* that is no step of any request and leaves the sessions alone: a request
\* that is answered with success leaves the student bound to the presented
\* device unless a reset of the student landed after the request read the
\* record.
C23_ResetAtAnyPoint ==
  /\ [](/\ \A a, b \in Rolls :
            /\ a # b
            /\ students[a].present /\ students[b].present
            /\ students[a].deviceId # NoDevice
            => students[a].deviceId # students[b].deviceId
        /\ \A i \in 1..Len(sessions) :
            \A k, l \in 1..Len(sessions[i].attendance) :
              k # l => sessions[i].attendance[k].rollNumber
                         # sessions[i].attendance[l].rollNumber)
  /\ [][/\ \A r \in Reqs :
            /\ /\ Arrives(r)
               /\ FirstFailingCheck(mark'[r].id, mark'[r].roll,
                                    mark'[r].deviceId) = "none"
               => /\ mark'[r].pc = "findStudent"
                  /\ students' = students /\ sessions' = sessions
            /\ /\ InFlight(r)
               /\ FirstFailingCheck(mark[r].id, mark[r].roll,
                                    mark[r].deviceId) = "none"
               => IF mark'[r].pc = "done"
                  THEN mark'[r].result = "Success"
                  ELSE FirstFailingCheck(mark[r].id, mark[r].roll,
                                         mark[r].deviceId)' = "none"
            /\ mark[r].pc = "saveStudent" /\ mark'[r].pc # "saveStudent"
               => students'[mark[r].roll].deviceId = mark[r].deviceId
            /\ mark'[r] # mark[r]
               => \A roll \in Rolls :
                    students[roll].deviceId # NoDevice =>
                      students'[roll] = students[roll]
            /\ /\ InFlight(r)
               /\ mark'[r].pc = "done"
               /\ mark'[r].result = "Success"
               => students'[mark[r].roll].deviceId
                    \in {mark[r].deviceId, NoDevice}
        /\ \A roll \in Rolls :
            /\ students[roll].deviceId # NoDevice
            /\ students'[roll] # students[roll]
            => /\ students'[roll] =
                    [students[roll] EXCEPT !.deviceId = NoDevice]
               /\ mark' = mark
               /\ sessions' = sessions]_vars

\* the device of a student was reset after the request had written the
\* binding and before it appended the entry: the request is in flight with
\* its binding written and the record holds no device
C23_Witness ==
  \E r \in Reqs :
    /\ mark[r].pc = "saveSessionAfterBind"
    /\ students[mark[r].roll].present
    /\ students[mark[r].roll].deviceId = NoDevice

\* ---- answers and writes of a check-in ------------------------------------
\* the step appends one entry for the roll of request r to the session the
\* request names
Appends(r) ==
  \E i \in 1..Len(sessions) :
    /\ sessions[i].id = mark'[r].id
    /\ Len(sessions'[i].attendance) = Len(sessions[i].attendance) + 1
    /\ sessions'[i].attendance[Len(sessions'[i].attendance)].rollNumber
         = mark'[r].roll

\* C24: a request is answered with success in exactly the step in which it
\* appends its entry; no other step of a request touches the sessions; and
\* every answer is success or one of the failure reasons.
C24_SuccessIffAppended ==
  [][\A r \in Reqs :
       mark'[r] # mark[r] /\ mark[r].pc # "done" =>
         /\ (Answers(r) /\ mark'[r].result = "Success") <=> Appends(r)
         /\ ~Appends(r) => sessions' = sessions
         /\ Answers(r) =>
              mark'[r].result \in FailureReasons \cup {"Internal", "Success"}]_vars

\* a request that met a store failure was answered Internal and the session
\* it names does not list its roll
C24_Witness ==
  \E r \in Reqs : \E i \in 1..Len(sessions) :
    /\ mark[r].pc = "done"
    /\ mark[r].result = "Internal"
    /\ sessions[i].id = mark[r].id
    /\ ~Listed(i, mark[r].roll)

\* ---- identifiers ---------------------------------------------------------
\* n blanks
Blanks(n) == [i \in 1..n |-> " "]

\* the identifier is the roll number up to letter case and blanks around it
Matches(rollNumber, roll) ==
  \E n, m \in 0..Len(rollNumber) :
    /\ Len(rollNumber) = n + Len(roll) + m
    /\ SubSeq(rollNumber, 1, n) = Blanks(n)
    /\ \A k \in 1..Len(roll) : UpperChar(rollNumber[n + k]) = roll[k]
    /\ SubSeq(rollNumber, n + Len(roll) + 1, Len(rollNumber)) = Blanks(m)

CanonicalOf(rollNumber) == CHOOSE roll \in Rolls : Matches(rollNumber, roll)

\* C25: identifiers that differ only in letter case or in blanks around them
\* are one roll number to a check-in: the request works with the canonical
\* roll number (so it reads the same student record), it is answered
\* AlreadyMarked when the active session lists that roll number however the
\* identifier was typed, and every entry of every session carries a
\* canonical roll number.
C25_CanonicalIdentifier ==
  /\ [](\A i \in 1..Len(sessions) :
         \A k \in 1..Len(sessions[i].attendance) :
           sessions[i].attendance[k].rollNumber \in Rolls)
  /\ [][\A r \in Reqs :
         Arrives(r) =>
           \A id \in SessionIds, rollNumber \in RawRolls, deviceId \in Devices :
             MarkRequest(r, id, rollNumber, deviceId) =>
               /\ mark'[r].roll = CanonicalOf(rollNumber)
               /\ (\E i \in 1..Len(sessions) :
                      /\ sessions[i].id = id
                      /\ sessions[i].isActive
                      /\ Listed(i, CanonicalOf(rollNumber)))
                  => mark'[r].result = "AlreadyMarked"]_vars

\* a request for a roll number the active session lists, with the device of
\* the entry, was answered AlreadyMarked
C25_Witness ==
  \E r \in Reqs : \E i \in 1..Len(sessions) :
    /\ mark[r].pc = "done"
    /\ mark[r].result = "AlreadyMarked"
    /\ sessions[i].id = mark[r].id
    /\ sessions[i].isActive
    /\ \E k \in 1..Len(sessions[i].attendance) :
         /\ sessions[i].attendance[k].rollNumber = mark[r].roll
         /\ sessions[i].attendance[k].deviceId = mark[r].deviceId

\* C26: the entry a check-in appends carries the department and the section
\* of the request when the request has them, and the ones of the student
\* document when the request leaves them out.
C26_EntryDisplayFields ==
  [][\A r \in Reqs :
       Appends(r) =>
         LET i == SessionIndex(mark[r].id)
             entry == sessions'[i].attendance[Len(sessions'[i].attendance)]
             record == StudentProfile(mark[r].roll)
         IN /\ entry.department = IF mark[r].department # Omitted
                                  THEN mark[r].department
                                  ELSE record.department
            /\ entry.section = IF mark[r].section # Omitted
                               THEN mark[r].section
                               ELSE record.section]_vars

\* the reader of a slot has been answered with this status and this body
Answered(slot, status, value) ==
  slot.pc = "done" /\ slot.status = status /\ slot.value = value

\* C27: a reader that finds no configuration stores one with the lock off
\* and answers it (or answers 500 and stores nothing when another request
\* has stored one since it looked); a reader that finds one answers it and
\* changes nothing; a write leaves exactly its body as the stored value,
\* whatever was stored before; under any interleaving of readers and writers
\* there is at most one configuration document.
C27_ConfigLifecycle ==
  /\ [](Len(config) <= 1)
  /\ [][/\ \A g \in Gets :
            /\ (cfg[g].pc = "idle" /\ cfg'[g].pc # "idle") =>
                 /\ config' = config
                 /\ IF config = <<>>
                    THEN cfg'[g].pc = "save"
                    ELSE Answered(cfg'[g], 200, config)
            /\ (cfg[g].pc = "save" /\ cfg'[g].pc # "save") =>
                 IF config = <<>>
                 THEN /\ Len(config') = 1
                      /\ config'[1].isLoginLocked = FALSE
                      /\ Answered(cfg'[g], 200, config')
                 ELSE /\ config' = config
                      /\ Answered(cfg'[g], 500, <<>>)
        /\ \A body \in ConfigValues :
             SetConfig(body) => config' = <<body>>]_vars

\* a writer has replaced the stored value, a reader has created the document
\* with the lock off, and a second one has been refused by the unique index
C27_Witness ==
  /\ reply.op = "POST /api/config"
  /\ reply.found
  /\ config # <<>>
  /\ config[1].note = Omitted
  /\ \E g \in Gets : cfg[g].pc = "done" /\ cfg[g].status = 500
  /\ \E g \in Gets : /\ cfg[g].pc = "done"
                      /\ cfg[g].status = 200
                      /\ cfg[g].value = <<DefaultValue>>

\* ---- the order of the writes of a check-in -------------------------------
\* C28: the append is the last write of a request.  At the binding write the
\* session does not list the request's roll number yet and the step leaves
\* the sessions alone; a binding write that stores nothing ends the request
\* with the Internal error; the append finds the binding stored, is the step
\* that answers, and a request that has answered writes nothing more.
C28_AppendIsLastWrite ==
  [][\A r \in Reqs :
       mark'[r] # mark[r] =>
         /\ mark[r].pc = "saveStudent" =>
              /\ sessions' = sessions
              /\ \A i \in 1..Len(sessions) :
                   sessions[i].id = mark[r].id => ~Listed(i, mark[r].roll)
              /\ IF students' = students
                 THEN mark'[r].pc = "done" /\ mark'[r].result = "Internal"
                 ELSE /\ mark'[r].pc = "saveSessionAfterBind"
                      /\ students'[mark[r].roll].deviceId = mark[r].deviceId
         /\ Appends(r) =>
              /\ mark[r].pc \in {"saveSession", "saveSessionAfterBind"}
              /\ students[mark[r].roll].deviceId = mark[r].deviceId
              /\ students' = students
              /\ mark'[r].pc = "done"
         /\ mark[r].pc = "done" =>
              students' = students /\ sessions' = sessions]_vars

\* a request between its two writes: the binding is stored and the session
\* does not list the roll number yet
C28_Witness ==
  \E r \in Reqs : \E i \in 1..Len(sessions) :
    /\ mark[r].pc = "saveSessionAfterBind"
    /\ students[mark[r].roll].deviceId = mark[r].deviceId
    /\ sessions[i].id = mark[r].id
    /\ ~Listed(i, mark[r].roll)

C30_LoginLockPolicy ==
  [][/\ (login.pc # "done" /\ login'.pc = "done" /\ login'.status # 400) =>
          LET student == login'.role = "STUDENT"
              known == StudentMatch(login'.identifier, login'.password)
              admin == AdminMatch(login'.identifier, login'.password)
              teacher == TeacherMatch(login'.identifier, login'.password)
          IN /\ login'.finalRole \in {"STUDENT", "TEACHER"} => ~login'.locked
             /\ (~student /\ admin) =>
                  login'.status = 200 /\ login'.finalRole = "ADMIN"
             /\ (login'.locked /\ ~(~student /\ admin)) => login'.status = 403
             /\ login'.status = 200 =>
                  login'.finalRole =
                    IF student THEN "STUDENT"
                    ELSE IF admin THEN "ADMIN" ELSE "TEACHER"
             /\ login'.finalRole = "STUDENT" => known
             /\ login'.finalRole = "TEACHER" => teacher /\ ~admin
             /\ login'.status = 401 =>
                  IF student THEN ~known ELSE ~admin /\ ~teacher
     /\ (login.pc = "idle" /\ login'.pc = "lookup") =>
            login'.locked = IsLoginLocked
     /\ \A r \in Reqs :
          Answers(r) =>
            LET reason == FirstFailingCheck(mark'[r].id, mark'[r].roll,
                                            mark'[r].deviceId)
            IN mark'[r].result =
                 IF reason = "none" THEN "Success" ELSE reason
     /\ mark' # mark => config' = config
     /\ config' # config =>
          UNCHANGED <<students, sessions, mark>>]_vars

\* with the lock set, an administrator has logged in through the teachers'
\* portal and a student has checked in
C30_Witness ==
  /\ IsLoginLocked
  /\ login.pc = "done"
  /\ login.locked
  /\ login.role = "TEACHER"
  /\ login.finalRole = "ADMIN"
  /\ TeacherMatch(login.identifier, login.password)
  /\ \E r \in Reqs : mark[r].pc = "done" /\ mark[r].result = "Success"

====
